---------------------------- MODULE Spec2Model ----------------------------
(***************************************************************************)
(* A model of the core of git-repo: RefSpec mapping and the Config Store   *)
(* (git_config.py), the Reference Cache (git_refs.py), the ssh connection  *)
(* multiplexer (git_config.py) and the manifest resolution engine          *)
(* (manifest_xml.py).  Each component has its own variables and its own    *)
(* specification; a specification leaves the other components idle.        *)
(***************************************************************************)
EXTENDS Integers, Sequences, FiniteSets, TLC

VARIABLES
  \* ---- RefSpec (git_config.py, class RefSpec)
  rs_src,        \* RefSpec.src, a string (sequence of characters)
  rs_dst,        \* RefSpec.dst
  rs_rev,        \* the ref last passed to the RefSpec
  rs_out,        \* what the last query returned
  rs_pc,         \* "new" until the RefSpec has been queried, then "queried"
  \* ---- Reference Cache (git_refs.py, class GitRefs) and the files it reads
  gr_disk,       \* loose ref files and HEAD: name -> [kind, val, mtime]
  gr_packed,     \* the packed-refs file: [exists, refs, mtime]
  gr_loaded,     \* _phyref is not None
  gr_phyref,     \* _phyref: name -> commit id
  gr_symref,     \* _symref: name -> target name
  gr_mtime,      \* _mtime: tracked file -> modification time last observed
  gr_writes,     \* number of changes made to the files so far
  gr_loads,      \* number of _LoadAll calls so far
  gr_last,       \* the last call on the cache and what it returned
  gr_purged,     \* names passed to deleted() on a loaded, up-to-date cache, no tracked file changed since
  gr_deleted,    \* names passed to deleted() in any state, no tracked file changed since
  \* ---- Config Store (git_config.py, class GitConfig) and its two files
  cf_file,       \* the backing config file as git lists it: key -> values
  cf_fileMtime,  \* its modification time
  cf_json,       \* the cache side-file: [state, content, mtime]
  cf_loaded,     \* _cache_dict is not None
  cf_cache,      \* _cache_dict: key -> values
  cf_hasParent,  \* defaults is not None
  cf_parent,     \* the key -> values view of the defaults store
  cf_clock,      \* the file system's clock
  cf_last,       \* the last call on the store and what it returned
  cf_set,        \* what SetString last stored per key in this process
  \* ---- Connection Multiplexer (git_config.py, init_ssh / _open_ssh / close_ssh)
  ss_lock,       \* _master_keys_lock: "None", "free" or the worker holding it
  ss_keys,       \* _master_keys
  ss_procs,      \* _master_processes, each process by the key it serves
  ss_master,     \* _ssh_master
  ss_env,        \* "plain", or why multiplexing is skipped: "GIT_SSH", "win32"
  ss_pc,         \* where each worker is in _open_ssh
  ss_arg,        \* the (host, port) of each worker's call
  ss_exit,       \* the way each worker's last call ended
  ss_main,       \* where the main thread is between init_ssh and close_ssh
  ss_recorded,   \* how many processes were appended to _master_processes so far
  ss_signalled,  \* how many of them close_ssh has killed and waited for
  ss_probe,      \* what the probe of each worker's call did
  \* ---- Manifest engine (manifest_xml.py, class XmlManifest)
  mf_doc,        \* the nodes of the manifest documents, in document order
  mf_includeMissing, \* an include element names a file that does not exist
  mf_mirror,     \* repo.mirror and what the meta projects' urls give
  mf_loaded,     \* _loaded
  mf_projects,   \* _projects: name -> list of Projects
  mf_paths,      \* _paths: relpath -> Project
  mf_remotes,    \* _remotes: name -> remote
  mf_default,    \* _default
  mf_repo_hooks_project, \* _repo_hooks_project
  mf_notice,     \* _notice
  mf_manifest_server, \* _manifest_server
  mf_branch,     \* branch
  mf_last,       \* the last call on the engine and how it ended
  mf_prev,       \* the graph that the last _Unload discarded
  \* ---- Process Executor (git_command.py)
  cl_list,       \* _ssh_clients, each client by the worker that spawned it
  cl_pc,         \* where each worker is between the spawn of a client and its Wait
  cl_killed,     \* the clients terminate_ssh_clients has killed and waited for
  cl_term,       \* where terminate_ssh_clients is
  cl_i,          \* how many turns its loop over _ssh_clients has made
  cl_lost,       \* the registered clients it left alive when it completed
  co_py,         \* whether a chunk read from a pipe is bytes (Python 3) or str
  co_left,       \* per stream, the bytes the child wrote that are not read yet
  co_in,         \* s_in: the streams not yet at end-of-file
  co_stdout,     \* self.stdout
  co_stderr,     \* self.stderr
  co_rc,         \* how Wait ended: "none", "rc" or "raised"
  en_environ,    \* os.environ of the parent process
  en_call,       \* the arguments of GitCommand(...) that decide the environment
  en_child,      \* the env handed to subprocess.Popen, once the child is spawned
  tl_name,       \* Remote.name
  tl_fetch,      \* Remote.fetch, the list of RefSpecs
  tl_rev,        \* the revision asked for, Branch.merge for LocalMerge
  tl_hasRemote,  \* whether the Branch has a remote
  tl_out,        \* the call made and how it ended
  ui_map,        \* the url.<replacement>.insteadof values, by replacement
  ui_url,        \* the url to rewrite
  ui_out,        \* the call made and what it returned
  pd_a,          \* the paths table of manifest A: path key -> revision
  pd_b,          \* the paths table of manifest B
  pd_out,        \* the projectsDiff call made and the diff it returned
  sv_doc,        \* the document that is resolved and then saved
  sv_engine,     \* the engine after resolving sv_doc
  sv_saved,      \* the elements Save wrote
  sv_again,      \* the engine that resolved what Save wrote
  sv_pc,         \* "new", "failed", "loaded", "saved" or "again"
  mn_outcome,    \* the way the command of _Main ended, "none" before
  mn_result,     \* what the process reported, "none" before
  sr_sym,        \* _symref as read from the files
  sr_phy,        \* _phyref as read from the files
  sr_order,      \* the order the scan took the symbolic refs in
  sr_out,        \* the resolved _phyref and the passes made, -1 before
  sx_file,       \* the backing file of the store: key -> values
  sx_cache,      \* _cache_dict of the loaded store
  sx_sections,   \* _section_dict: unset, or the dictionary built
  sx_writes,     \* the SetString and Save calls made
  sx_last,       \* the last call and what it returned
  ic_files,      \* the manifest files: name -> children of <manifest>
  ic_out,        \* how _ParseManifestXml of the root document ended
  ov_manifestFile, \* manifestFile
  ov_docs,       \* the nodes each manifest file resolves to
  ov_includeMissing, \* the override file includes a file that does not exist
  ov_mirror,     \* repo.mirror and what the meta projects' urls give
  ov_engine,     \* the indexes, remotes, default, hooks, notice and server
  ov_loaded,     \* _loaded
  ov_branch,     \* branch
  ov_last        \* the last call and how it ended

rsVars == <<rs_src, rs_dst, rs_rev, rs_out, rs_pc>>

grVars == <<gr_disk, gr_packed, gr_loaded, gr_phyref, gr_symref, gr_mtime,
            gr_writes, gr_loads, gr_last, gr_purged, gr_deleted>>

cfVars == <<cf_file, cf_fileMtime, cf_json, cf_loaded, cf_cache, cf_hasParent,
            cf_parent, cf_clock, cf_last, cf_set>>

ssVars == <<ss_lock, ss_keys, ss_procs, ss_master, ss_env, ss_pc, ss_arg, ss_exit,
            ss_main, ss_recorded, ss_signalled, ss_probe>>

mfVars == <<mf_doc, mf_includeMissing, mf_mirror, mf_loaded, mf_projects, mf_paths,
            mf_remotes, mf_default, mf_repo_hooks_project, mf_notice,
            mf_manifest_server, mf_branch, mf_last, mf_prev>>

clVars == <<cl_list, cl_pc, cl_killed, cl_term, cl_i, cl_lost>>

coVars == <<co_py, co_left, co_in, co_stdout, co_stderr, co_rc>>

enVars == <<en_environ, en_call, en_child>>

tlVars == <<tl_name, tl_fetch, tl_rev, tl_hasRemote, tl_out>>

uiVars == <<ui_map, ui_url, ui_out>>

pdVars == <<pd_a, pd_b, pd_out>>

svVars == <<sv_doc, sv_engine, sv_saved, sv_again, sv_pc>>

mnVars == <<mn_outcome, mn_result>>

srVars == <<sr_sym, sr_phy, sr_order, sr_out>>

sxVars == <<sx_file, sx_cache, sx_sections, sx_writes, sx_last>>

icVars == <<ic_files, ic_out>>

ovVars == <<ov_manifestFile, ov_docs, ov_includeMissing, ov_mirror, ov_engine,
            ov_loaded, ov_branch, ov_last>>

gcVars == <<clVars, coVars, enVars, tlVars, uiVars, pdVars, svVars, mnVars, srVars, sxVars, icVars, ovVars>>

vars == <<rsVars, grVars, cfVars, ssVars, mfVars, gcVars>>

(***************************************************************************)
(* Strings are sequences of characters; the slices are Python's.           *)
(***************************************************************************)
Alphabet == {"a", "/", "*"}

MaxStrLen == 3

Strings == UNION {[1..n -> Alphabet] : n \in 0..MaxStrLen}

\* s[:-1]
DropLast(s) == IF Len(s) = 0 THEN <<>> ELSE SubSeq(s, 1, Len(s) - 1)

\* s[n:] for n >= 0
SliceFrom(s, n) == IF n >= Len(s) THEN <<>> ELSE SubSeq(s, n + 1, Len(s))

\* s.startswith(p)
StartsWith(s, p) == Len(p) <= Len(s) /\ SubSeq(s, 1, Len(p)) = p

\* s.endswith('/*')
EndsWithWild(s) == Len(s) >= 2 /\ s[Len(s) - 1] = "/" /\ s[Len(s)] = "*"

(***************************************************************************)
(* RefSpec                                                                 *)
(***************************************************************************)
SourceMatches(src, rev) ==
  /\ src # <<>>
  /\ \/ rev = src
     \/ EndsWithWild(src) /\ StartsWith(rev, DropLast(src))

DestMatches(dst, ref) ==
  /\ dst # <<>>
  /\ \/ ref = dst
     \/ EndsWithWild(dst) /\ StartsWith(ref, DropLast(dst))

\* MapSource with the destination's slice off by one (dst[:-2]).
MapSourceShortSlice(src, dst, rev) ==
  IF EndsWithWild(src)
    THEN DropLast(DropLast(dst)) \o SliceFrom(rev, Len(src) - 1)
    ELSE dst

MapSource(src, dst, rev) ==
  IF EndsWithWild(src)
    THEN DropLast(dst) \o SliceFrom(rev, Len(src) - 1)
    ELSE dst

RsInit ==
  /\ rs_src \in Strings
  /\ rs_dst \in Strings
  /\ rs_rev = <<>>
  /\ rs_out = [sourceMatches |-> FALSE, mapped |-> <<>>, destMatches |-> FALSE]
  /\ rs_pc = "new"

RsIdle ==
  /\ rs_src = <<>>
  /\ rs_dst = <<>>
  /\ rs_rev = <<>>
  /\ rs_out = [sourceMatches |-> FALSE, mapped |-> <<>>, destMatches |-> FALSE]
  /\ rs_pc = "idle"

\* One round of queries on the RefSpec: SourceMatches(rev), MapSource(rev)
\* and DestMatches of the mapped ref.
RefSpecQuery ==
  \E rev \in Strings :
    /\ rs_pc = "new"
    /\ rs_rev' = rev
    /\ rs_out' = [sourceMatches |-> SourceMatches(rs_src, rev),
                  mapped        |-> MapSource(rs_src, rs_dst, rev),
                  destMatches   |-> DestMatches(rs_dst, MapSource(rs_src, rs_dst, rev))]
    /\ rs_pc' = "queried"
    /\ UNCHANGED <<rs_src, rs_dst>>


(***************************************************************************)
(* Reference Cache                                                         *)
(***************************************************************************)
HEAD == "HEAD"

\* The loose ref files of the repository, and HEAD.
LooseNames == {"refs/heads/a"}

\* The refs the packed-refs file may list.
PackedNames == {"refs/heads/a"}

RefNames == LooseNames \cup PackedNames \cup {HEAD}

CommitIds == {"c1", "c2"}

\* Keys of _mtime that are not ref names.
PACKED_REFS == "packed-refs"

REFS_DIR == "refs/"

\* The modification time of the refs/ directory: its only entries are
\* sub-directories that are neither created nor removed.
RefsDirMtime == 0

MaxDiskWrites == 1

Absent == [kind |-> "absent", val |-> "", mtime |-> 0]

\* What a loose ref file (or HEAD) may hold: a commit id or 'ref: <name>'.
LooseContents ==
  {[kind |-> "phy", val |-> c] : c \in CommitIds}
    \cup {[kind |-> "sym", val |-> n] : n \in RefNames \ {HEAD}}

EmptyMap == [x \in {} |-> ""]

\* d with key k removed; d with key k set to v
MapDel(d, k) == [x \in DOMAIN d \ {k} |-> d[x]]

MapPut(d, k, v) == [x \in DOMAIN d \cup {k} |-> IF x = k THEN v ELSE d[x]]

PackedContents == UNION {[S -> CommitIds] : S \in SUBSET PackedNames}

\* os.path.getmtime of a tracked file; -1 stands for OSError
DiskMtime(f) ==
  IF f = PACKED_REFS
    THEN (IF gr_packed.exists THEN gr_packed.mtime ELSE -1)
    ELSE IF f = REFS_DIR
      THEN RefsDirMtime
      ELSE IF gr_disk[f].kind = "absent" THEN -1 ELSE gr_disk[f].mtime

\* _NeedUpdate that takes a file that has disappeared for an unchanged one
NeedUpdateIgnoresMissing ==
  \E f \in DOMAIN gr_mtime : DiskMtime(f) # -1 /\ gr_mtime[f] # DiskMtime(f)

\* _NeedUpdate
NeedUpdate == \E f \in DOMAIN gr_mtime : gr_mtime[f] # DiskMtime(f)

\* _ReadPackedRefs, _ReadLoose('refs/') and _ReadLoose1(HEAD): the three
\* tables as read from the files, before symbolic refs are resolved.
ReadFiles ==
  LET files  == {f \in LooseNames \cup {HEAD} : gr_disk[f].kind # "absent"}
      phyF   == {f \in files : gr_disk[f].kind = "phy"}
      symF   == {f \in files : gr_disk[f].kind = "sym"}
      packed == IF gr_packed.exists THEN gr_packed.refs ELSE EmptyMap
      tracked == files \cup {REFS_DIR}
                   \cup (IF gr_packed.exists THEN {PACKED_REFS} ELSE {})
  IN [phy |-> [n \in DOMAIN packed \cup phyF |->
                 IF n \in phyF THEN gr_disk[n].val ELSE packed[n]],
      sym |-> [n \in symF |-> gr_disk[n].val],
      mtime |-> [f \in tracked |-> DiskMtime(f)]]

\* One pass of the scan over the symbolic refs still unresolved, in the
\* order the dictionary yields them; phy is updated in place.
RECURSIVE ScanPass(_, _, _, _)
ScanPass(order, sym, phy, next) ==
  IF order = <<>>
    THEN [phy |-> phy, next |-> next]
    ELSE LET name == Head(order)
             dest == sym[name]
         IN IF dest \in DOMAIN phy
              THEN ScanPass(Tail(order), sym, MapPut(phy, name, phy[dest]), next)
              ELSE ScanPass(Tail(order), sym, phy, Append(next, name))

MaxAttempts == 5

\* The scan that gives up after its first pass
ResolveOnePass(scan, sym, phy, attempts) ==
  IF scan = <<>>
    THEN [phy |-> phy, attempts |-> 0]
    ELSE [phy |-> ScanPass(scan, sym, phy, <<>>).phy, attempts |-> 1]

\* 'while scan and attempts < 5': the physical table after the loop and
\* the number of passes made
RECURSIVE Resolve(_, _, _, _)
Resolve(scan, sym, phy, attempts) ==
  IF scan = <<>> \/ attempts >= MaxAttempts
    THEN [phy |-> phy, attempts |-> attempts]
    ELSE LET r == ScanPass(scan, sym, phy, <<>>)
         IN Resolve(r.next, sym, r.phy, attempts + 1)

\* The orders in which a dictionary with these keys may yield them.
Orders(S) == {o \in [1..Cardinality(S) -> S] : \A i, j \in DOMAIN o : i # j => o[i] # o[j]}

\* _LoadAll with the symbolic refs scanned in the given order
LoadAll(order) ==
  LET t == ReadFiles
  IN /\ gr_phyref' = Resolve(order, t.sym, t.phy, 0).phy
     /\ gr_symref' = t.sym
     /\ gr_mtime' = t.mtime
     /\ gr_loaded' = TRUE
     /\ gr_loads' = gr_loads + 1

\* _EnsureLoaded
EnsureLoaded ==
  IF ~gr_loaded \/ NeedUpdate
    THEN \E order \in Orders(DOMAIN ReadFiles.sym) : LoadAll(order)
    ELSE UNCHANGED <<gr_phyref, gr_symref, gr_mtime, gr_loaded, gr_loads>>

Lookup(d, name) == IF name \in DOMAIN d THEN d[name] ELSE ""

\* GitRefs.get
Get(name) ==
  /\ EnsureLoaded
  /\ gr_last' = [op |-> "get", name |-> name, result |-> Lookup(gr_phyref', name),
                 reloaded |-> gr_loads' # gr_loads]
  /\ UNCHANGED <<gr_disk, gr_packed, gr_writes, gr_purged, gr_deleted>>

\* GitRefs.symref
Symref(name) ==
  /\ EnsureLoaded
  /\ gr_last' = [op |-> "symref", name |-> name, result |-> Lookup(gr_symref', name),
                 reloaded |-> gr_loads' # gr_loads]
  /\ UNCHANGED <<gr_disk, gr_packed, gr_writes, gr_purged, gr_deleted>>

\* deleted() that forgets to purge the physical table
DeletedKeepsPhyref(name) ==
  /\ IF gr_loaded
       THEN /\ gr_symref' = MapDel(gr_symref, name)
            /\ gr_mtime' = MapDel(gr_mtime, name)
            /\ gr_purged' = IF NeedUpdate THEN gr_purged ELSE gr_purged \cup {name}
            /\ UNCHANGED gr_phyref
       ELSE UNCHANGED <<gr_phyref, gr_symref, gr_mtime, gr_purged>>
  /\ gr_deleted' = gr_deleted \cup {name}
  /\ gr_last' = [op |-> "deleted", name |-> name, result |-> "", reloaded |-> FALSE]
  /\ UNCHANGED <<gr_disk, gr_packed, gr_loaded, gr_loads, gr_writes>>

\* GitRefs.deleted
Deleted(name) ==
  /\ IF gr_loaded
       THEN /\ gr_phyref' = MapDel(gr_phyref, name)
            /\ gr_symref' = MapDel(gr_symref, name)
            /\ gr_mtime' = MapDel(gr_mtime, name)
            /\ gr_purged' = IF NeedUpdate THEN gr_purged ELSE gr_purged \cup {name}
       ELSE UNCHANGED <<gr_phyref, gr_symref, gr_mtime, gr_purged>>
  /\ gr_deleted' = gr_deleted \cup {name}
  /\ UNCHANGED <<gr_disk, gr_packed, gr_loaded, gr_loads, gr_writes>>
  /\ gr_last' = [op |-> "deleted", name |-> name, result |-> "",
                 reloaded |-> gr_loads' # gr_loads]

\* The files change under the cache (git itself, or another process): a
\* tracked file that changes ends the period the purge is claimed for.
Untrack(f) ==
  /\ gr_purged' = IF f \in DOMAIN gr_mtime THEN {} ELSE gr_purged
  /\ gr_deleted' = IF f \in DOMAIN gr_mtime THEN {} ELSE gr_deleted

\* A loose ref file or HEAD is written.
WriteLoose ==
  \E f \in LooseNames \cup {HEAD}, c \in LooseContents :
    /\ gr_writes < MaxDiskWrites
    /\ gr_disk' = [gr_disk EXCEPT ![f] =
                     [kind |-> c.kind, val |-> c.val, mtime |-> gr_disk[f].mtime + 1]]
    /\ gr_writes' = gr_writes + 1
    /\ Untrack(f)
    /\ UNCHANGED <<gr_packed, gr_loaded, gr_phyref, gr_symref, gr_mtime, gr_loads, gr_last>>

\* A loose ref file is removed.
RemoveLoose ==
  \E f \in LooseNames :
    /\ gr_writes < MaxDiskWrites
    /\ gr_disk[f].kind # "absent"
    /\ gr_disk' = [gr_disk EXCEPT ![f] = [Absent EXCEPT !.mtime = gr_disk[f].mtime]]
    /\ gr_writes' = gr_writes + 1
    /\ Untrack(f)
    /\ UNCHANGED <<gr_packed, gr_loaded, gr_phyref, gr_symref, gr_mtime, gr_loads, gr_last>>

\* packed-refs is rewritten (git pack-refs, git gc).
WritePacked ==
  \E refs \in PackedContents :
    /\ gr_writes < MaxDiskWrites
    /\ gr_packed' = [exists |-> TRUE, refs |-> refs, mtime |-> gr_packed.mtime + 1]
    /\ gr_writes' = gr_writes + 1
    /\ Untrack(PACKED_REFS)
    /\ UNCHANGED <<gr_disk, gr_loaded, gr_phyref, gr_symref, gr_mtime, gr_loads, gr_last>>

\* GitRefs.__init__ on a repository whose files hold anything
GrInit ==
  /\ gr_disk \in [LooseNames \cup {HEAD} -> {Absent} \cup {[c EXCEPT !.mtime = 0] :
                     c \in {[kind |-> k.kind, val |-> k.val, mtime |-> 0] : k \in LooseContents}}]
  /\ gr_disk[HEAD].kind # "absent"
  /\ gr_packed \in {[exists |-> FALSE, refs |-> EmptyMap, mtime |-> 0]}
                     \cup {[exists |-> TRUE, refs |-> r, mtime |-> 0] : r \in PackedContents}
  /\ gr_loaded = FALSE
  /\ gr_phyref = EmptyMap
  /\ gr_symref = EmptyMap
  /\ gr_mtime = EmptyMap
  /\ gr_writes = 0
  /\ gr_loads = 0
  /\ gr_last = [op |-> "init", name |-> "", result |-> "", reloaded |-> FALSE]
  /\ gr_purged = {}
  /\ gr_deleted = {}

GrIdle ==
  /\ gr_disk = [f \in LooseNames \cup {HEAD} |-> Absent]
  /\ gr_packed = [exists |-> FALSE, refs |-> EmptyMap, mtime |-> 0]
  /\ gr_loaded = FALSE
  /\ gr_phyref = EmptyMap
  /\ gr_symref = EmptyMap
  /\ gr_mtime = EmptyMap
  /\ gr_writes = 0
  /\ gr_loads = 0
  /\ gr_last = [op |-> "idle", name |-> "", result |-> "", reloaded |-> FALSE]
  /\ gr_purged = {}
  /\ gr_deleted = {}

(***************************************************************************)
(* Config Store                                                            *)
(***************************************************************************)
\* Names as callers spell them: dotted segments, in either case.
CfgNames == {<<"k", "k">>, <<"K", "K">>}

CfgValues == {"v", "w"}

MaxCfgClock == 1

\* The value lists a key is given or holds: no, one or two values.
ValueLists == {<<>>, <<"v">>, <<"w">>, <<"v", "w">>}

\* The values a key holds in the defaults store.
ParentLists == {<<"w">>}

\* str.lower() of one segment
Lower(seg) == IF seg = "K" THEN "k" ELSE IF seg = "S" THEN "s" ELSE seg

\* _key: the first and the last segment in lower case
Key(name) ==
  IF Len(name) < 2
    THEN [i \in DOMAIN name |-> Lower(name[i])]
    ELSE [i \in DOMAIN name |->
            IF i = 1 \/ i = Len(name) THEN Lower(name[i]) ELSE name[i]]

CfgKeys == {Key(n) : n \in CfgNames}

\* Every key -> values map with at least one value per key.
CfgMaps == UNION {[S -> ValueLists \ {<<>>}] : S \in SUBSET CfgKeys}

\* d.get(k, [])
Values(d, k) == IF k \in DOMAIN d THEN d[k] ELSE <<>>

\* What SetString is given: None, a string or a list of strings.
SetValues ==
  {[kind |-> "none", val |-> <<>>]}
    \cup {[kind |-> "str", val |-> <<v>>] : v \in CfgValues}
    \cup {[kind |-> "list", val |-> l] : l \in ValueLists}

NoResult == [isNone |-> TRUE, val |-> <<>>]

\* _ReadJson that also trusts a side-file as old as the backing file
JsonTrustedNotOlder ==
  /\ cf_json.state = "ok"
  /\ cf_json.mtime >= cf_fileMtime

\* _ReadJson: the side-file's content, or nothing when it is missing, not
\* strictly newer than the backing file, or does not parse.
JsonTrusted ==
  /\ cf_json.state = "ok"
  /\ cf_json.mtime > cf_fileMtime

\* _Read: [dict, json, source]; gitOk is whether 'git config --list'
\* exits with 0, saveOk whether the side-file can be written.
Read(gitOk, saveOk) ==
  IF JsonTrusted
    THEN [dict |-> cf_json.content, json |-> cf_json, source |-> "json"]
    ELSE LET d == IF gitOk THEN cf_file ELSE EmptyMap
         IN [dict |-> d,
             json |-> IF saveOk
                        THEN [state |-> "ok", content |-> d, mtime |-> cf_clock]
                        ELSE [state |-> "absent", content |-> EmptyMap, mtime |-> 0],
             source |-> "git"]

\* The _cache property: [dict, json, source], source "memory" when the
\* view is already loaded.
Cache(gitOk, saveOk) ==
  IF cf_loaded
    THEN [dict |-> cf_cache, json |-> cf_json, source |-> "memory"]
    ELSE Read(gitOk, saveOk)

\* The outcomes of the environment are only drawn when they are used.
Drawn(gitOk, saveOk) ==
  /\ (cf_loaded \/ JsonTrusted) => (gitOk /\ saveOk)
  /\ ~gitOk => saveOk

\* GetString of the defaults store, which has no defaults itself
ParentGetString(name, all) ==
  LET v == Values(cf_parent, Key(name))
  IN IF all THEN [isNone |-> FALSE, val |-> v]
     ELSE IF v # <<>> THEN [isNone |-> FALSE, val |-> <<v[1]>>] ELSE NoResult

\* GetString that never asks the defaults store
GetStringInChildOnly(d, name, all) ==
  LET v == Values(d, Key(name))
  IN IF ~all
       THEN (IF v # <<>> THEN [isNone |-> FALSE, val |-> <<v[1]>>] ELSE NoResult)
       ELSE [isNone |-> FALSE, val |-> v]

\* GetString on the view d
GetStringIn(d, name, all) ==
  IF Key(name) \notin DOMAIN d /\ cf_hasParent
    THEN ParentGetString(name, all)
    ELSE LET v == Values(d, Key(name))
         IN IF ~all
              THEN (IF v # <<>> THEN [isNone |-> FALSE, val |-> <<v[1]>>] ELSE NoResult)
              ELSE [isNone |-> FALSE,
                    val |-> v \o (IF cf_hasParent
                                    THEN ParentGetString(name, TRUE).val ELSE <<>>)]

\* What the call saw of the two files before it ran.
Seen(c, gitOk) ==
  LET stale == cf_json.state # "absent" /\ cf_json.mtime <= cf_fileMtime
  IN [source |-> c.source, gitOk |-> gitOk, jsonStale |-> stale,
      differs |-> stale /\ c.source = "git" /\ cf_json.content # cf_file]

\* The first access of an instance finds a side-file that is newer than
\* the backing file and cannot be opened or parsed, and the os.remove of
\* the except clause of _ReadJson raises OSError (the file is in a
\* directory the process may not write to, or is gone by now): the error
\* leaves _ReadJson, _Read and the _cache property, nothing is loaded.
ReadRaises(name) ==
  /\ ~cf_loaded
  /\ cf_json.state = "corrupt"
  /\ cf_json.mtime > cf_fileMtime
  /\ cf_last' = [op |-> "raised", key |-> Key(name), all |-> FALSE, result |-> NoResult,
                 seen |-> [source |-> "json", gitOk |-> TRUE, jsonStale |-> FALSE,
                           differs |-> FALSE]]
  /\ UNCHANGED <<cf_file, cf_fileMtime, cf_json, cf_loaded, cf_cache, cf_hasParent,
                 cf_parent, cf_clock, cf_set>>

\* GitConfig.GetString
GetString(name, all) ==
  \/ ReadRaises(name)
  \/ \E gitOk, saveOk \in BOOLEAN :
    /\ Drawn(gitOk, saveOk)
    /\ LET c == Cache(gitOk, saveOk)
       IN /\ cf_loaded' = TRUE
          /\ cf_cache' = c.dict
          /\ cf_json' = c.json
          /\ cf_last' = [op |-> "GetString", key |-> Key(name), all |-> all,
                         result |-> GetStringIn(c.dict, name, all),
                         seen |-> Seen(c, gitOk)]
    /\ UNCHANGED <<cf_file, cf_fileMtime, cf_hasParent, cf_parent, cf_clock, cf_set>>

\* Has of the defaults store, which has no defaults itself
ParentHas(name) == Key(name) \in DOMAIN cf_parent

\* Has on the view d, include_defaults left at True as every caller does
HasIn(d, name) ==
  IF Key(name) \in DOMAIN d THEN TRUE
  ELSE IF cf_hasParent THEN ParentHas(name)
  ELSE FALSE

\* A Python bool as a result
Bool(b) == [isNone |-> FALSE, val |-> IF b THEN <<"True">> ELSE <<"False">>]

\* GitConfig.Has
Has(name) ==
  \/ ReadRaises(name)
  \/ \E gitOk, saveOk \in BOOLEAN :
    /\ Drawn(gitOk, saveOk)
    /\ LET c == Cache(gitOk, saveOk)
       IN /\ cf_loaded' = TRUE
          /\ cf_cache' = c.dict
          /\ cf_json' = c.json
          /\ cf_last' = [op |-> "Has", key |-> Key(name), all |-> FALSE,
                         result |-> Bool(HasIn(c.dict, name)),
                         seen |-> Seen(c, gitOk)]
    /\ UNCHANGED <<cf_file, cf_fileMtime, cf_hasParent, cf_parent, cf_clock, cf_set>>

\* 'git config --file f --replace-all k v', '--add k v' and '--unset-all k'
\* on the file's content
GitReplaceAll(f, k, v) == MapPut(f, k, <<v>>)

GitAdd(f, k, v) == MapPut(f, k, Append(Values(f, k), v))

GitUnsetAll(f, k) == MapDel(f, k)

\* The file after the --replace-all and --add commands of a list value;
\* oks[i] is whether the i-th command exits with 0.
RECURSIVE WriteList(_, _, _, _, _)
WriteList(f, k, vals, oks, i) ==
  IF i > Len(vals)
    THEN f
    ELSE WriteList(IF ~oks[i] THEN f
                   ELSE IF i = 1 THEN GitReplaceAll(f, k, vals[1])
                   ELSE GitAdd(f, k, vals[i]),
                   k, vals, oks, i + 1)

\* SetString that leaves the view as it was
SetStringKeepsView(d, f, name, value, oks) == [dict |-> d, file |-> f, ran |-> 0]

\* SetString on the view d and the file f: [dict, file, ran], ran the
\* number of git commands run.
SetStringIn(d, f, name, value, oks) ==
  LET key == Key(name)
      old == Values(d, key)
      same == [dict |-> d, file |-> f, ran |-> 0]
      asStr(v) ==
        IF Len(old) # 1 \/ old[1] # v
          THEN [dict |-> MapPut(d, key, <<v>>),
                file |-> IF oks[1] THEN GitReplaceAll(f, key, v) ELSE f,
                ran |-> 1]
          ELSE same
      asNone ==
        IF old # <<>>
          THEN [dict |-> MapDel(d, key),
                file |-> IF oks[1] THEN GitUnsetAll(f, key) ELSE f,
                ran |-> 1]
          ELSE same
  IN CASE value.kind = "none" -> asNone
       [] value.kind = "str" -> asStr(value.val[1])
       [] value.kind = "list" /\ Len(value.val) = 0 -> asNone
       [] value.kind = "list" /\ Len(value.val) = 1 -> asStr(value.val[1])
       [] OTHER ->
            IF old # value.val
              THEN [dict |-> MapPut(d, key, value.val),
                    file |-> WriteList(f, key, value.val, oks, 1),
                    ran |-> Len(value.val)]
              ELSE same

\* What a SetString leaves to be read back: nothing, one value or a list.
Stored(value) ==
  IF value.kind = "none" \/ value.val = <<>>
    THEN [kind |-> "none", val |-> <<>>]
    ELSE IF Len(value.val) = 1
      THEN [kind |-> "single", val |-> value.val]
      ELSE [kind |-> "list", val |-> value.val]

\* GitConfig.SetString
SetString(name, value) ==
  \/ ReadRaises(name)
  \/ \E gitOk, saveOk \in BOOLEAN, oks \in [1..2 -> BOOLEAN] :
    /\ Drawn(gitOk, saveOk)
    /\ LET c == Cache(gitOk, saveOk)
           r == SetStringIn(c.dict, cf_file, name, value, oks)
       IN /\ \A i \in 1..2 : i > r.ran => oks[i]
          /\ r.file \in CfgMaps
          /\ cf_loaded' = TRUE
          /\ cf_cache' = r.dict
          /\ cf_json' = c.json
          /\ cf_file' = r.file
          /\ cf_fileMtime' = IF r.file # cf_file THEN cf_clock ELSE cf_fileMtime
          /\ cf_last' = [op |-> "SetString", key |-> Key(name), all |-> FALSE,
                         result |-> NoResult,
                         seen |-> [source |-> "memory", gitOk |-> TRUE,
                                   jsonStale |-> FALSE, differs |-> FALSE]]
          /\ cf_set' = MapPut(cf_set, Key(name), Stored(value))
    /\ UNCHANGED <<cf_hasParent, cf_parent, cf_clock>>

\* The command ends; the next one builds a new GitConfig on the same files.
NewProcess ==
  /\ cf_loaded
  /\ cf_loaded' = FALSE
  /\ cf_cache' = EmptyMap
  /\ cf_set' = EmptyMap
  /\ cf_last' = [op |-> "new", key |-> <<>>, all |-> FALSE, result |-> NoResult,
                 seen |-> [source |-> "memory", gitOk |-> TRUE, jsonStale |-> FALSE,
                          differs |-> FALSE]]
  /\ UNCHANGED <<cf_file, cf_fileMtime, cf_json, cf_hasParent, cf_parent, cf_clock>>

\* The backing file is edited by something else (git itself, an editor).
ExternalEdit ==
  \E f \in CfgMaps :
    /\ f # cf_file
    /\ cf_file' = f
    /\ cf_fileMtime' = cf_clock
    /\ cf_last' = [op |-> "edit", key |-> <<>>, all |-> FALSE, result |-> NoResult,
                   seen |-> [source |-> "memory", gitOk |-> TRUE, jsonStale |-> FALSE,
                             differs |-> FALSE]]
    /\ UNCHANGED <<cf_json, cf_loaded, cf_cache, cf_hasParent, cf_parent, cf_clock,
                   cf_set>>

\* The side-file is damaged: it no longer parses.
CorruptJson ==
  /\ cf_json.state = "ok"
  /\ cf_json' = [state |-> "corrupt", content |-> EmptyMap, mtime |-> cf_json.mtime]
  /\ UNCHANGED <<cf_file, cf_fileMtime, cf_loaded, cf_cache, cf_hasParent, cf_parent,
                 cf_clock, cf_last, cf_set>>

\* Time passes.
CfgTick ==
  /\ cf_clock < MaxCfgClock
  /\ cf_clock' = cf_clock + 1
  /\ UNCHANGED <<cf_file, cf_fileMtime, cf_json, cf_loaded, cf_cache, cf_hasParent,
                 cf_parent, cf_last, cf_set>>

\* GitConfig.__init__ on a backing file holding anything, no side-file yet
CfInit ==
  /\ cf_file \in CfgMaps
  /\ cf_fileMtime = 0
  /\ cf_json = [state |-> "absent", content |-> EmptyMap, mtime |-> 0]
  /\ cf_loaded = FALSE
  /\ cf_cache = EmptyMap
  /\ cf_hasParent \in BOOLEAN
  /\ cf_parent \in UNION {[S -> ParentLists] : S \in SUBSET CfgKeys}
  /\ ~cf_hasParent => cf_parent = EmptyMap
  /\ cf_clock = 0
  /\ cf_last = [op |-> "init", key |-> <<>>, all |-> FALSE, result |-> NoResult,
                seen |-> [source |-> "memory", gitOk |-> TRUE, jsonStale |-> FALSE,
                          differs |-> FALSE]]
  /\ cf_set = EmptyMap

CfIdle ==
  /\ cf_file = EmptyMap
  /\ cf_fileMtime = 0
  /\ cf_json = [state |-> "absent", content |-> EmptyMap, mtime |-> 0]
  /\ cf_loaded = FALSE
  /\ cf_cache = EmptyMap
  /\ cf_hasParent = FALSE
  /\ cf_parent = EmptyMap
  /\ cf_clock = 0
  /\ cf_last = [op |-> "idle", key |-> <<>>, all |-> FALSE, result |-> NoResult,
                seen |-> [source |-> "memory", gitOk |-> TRUE, jsonStale |-> FALSE,
                          differs |-> FALSE]]
  /\ cf_set = EmptyMap

(***************************************************************************)
(* Connection Multiplexer                                                  *)
(***************************************************************************)
Workers == {"w1", "w2"}

\* The (host, port) pairs _open_ssh is called with; port "None" is no port.
AcquireArgs == {[host |-> "h", port |-> "None"], [host |-> "h", port |-> "22"]}

NoArg == [host |-> "", port |-> "None"]

\* key = '%s:%s' % (host, port), or host alone without a port
SshKey(a) == IF a.port # "None" THEN <<a.host, ":", a.port>> ELSE <<a.host>>

\* The lock after the finally clause of the worker w.
Released(w) == IF ss_lock = w THEN "free" ELSE ss_lock

\* Return from _open_ssh the way 'how', through the finally clause, whose
\* release() raises when close_ssh has set the lock to None meanwhile.
Return(w, how) ==
  /\ ss_pc' = [ss_pc EXCEPT ![w] = "idle"]
  /\ ss_exit' = [ss_exit EXCEPT ![w] = IF ss_lock = "None" THEN "raised" ELSE how]
  /\ ss_lock' = Released(w)

\* init_ssh
InitSsh ==
  /\ ss_main = "start"
  /\ ss_lock = "None"
  /\ ss_lock' = "free"
  /\ ss_main' = "run"
  /\ UNCHANGED <<ss_keys, ss_procs, ss_master, ss_env, ss_pc, ss_arg, ss_exit>>
  /\ UNCHANGED <<ss_recorded, ss_signalled, ss_probe>>

\* A worker calls _open_ssh(host, port).
Call(w, a) ==
  /\ ss_main # "start"
  /\ ss_pc[w] = "idle"
  /\ ss_pc' = [ss_pc EXCEPT ![w] = "acquire"]
  /\ ss_arg' = [ss_arg EXCEPT ![w] = a]
  /\ ss_exit' = [ss_exit EXCEPT ![w] = "none"]
  /\ ss_probe' = [ss_probe EXCEPT ![w] = "unset"]
  /\ UNCHANGED <<ss_lock, ss_keys, ss_procs, ss_master, ss_env, ss_main>>
  /\ UNCHANGED <<ss_recorded, ss_signalled>>

\* _master_keys_lock.acquire() that does not wait for the holder
AcquireLockNoWait(w) ==
  /\ ss_pc[w] = "acquire"
  /\ ss_lock # "None"
  /\ ss_lock' = w
  /\ ss_pc' = [ss_pc EXCEPT ![w] = "check"]
  /\ UNCHANGED <<ss_keys, ss_procs, ss_master, ss_env, ss_arg, ss_exit, ss_main>>
  /\ UNCHANGED <<ss_recorded, ss_signalled, ss_probe>>

\* _master_keys_lock.acquire()
AcquireLock(w) ==
  /\ ss_pc[w] = "acquire"
  /\ ss_lock = "free"
  /\ ss_lock' = w
  /\ ss_pc' = [ss_pc EXCEPT ![w] = "check"]
  /\ UNCHANGED <<ss_keys, ss_procs, ss_master, ss_env, ss_arg, ss_exit, ss_main>>
  /\ UNCHANGED <<ss_recorded, ss_signalled, ss_probe>>

\* _master_keys_lock.acquire() after close_ssh has set the lock to None
AcquireNoLock(w) ==
  /\ ss_pc[w] = "acquire"
  /\ ss_lock = "None"
  /\ ss_pc' = [ss_pc EXCEPT ![w] = "idle"]
  /\ ss_exit' = [ss_exit EXCEPT ![w] = "raised"]
  /\ UNCHANGED <<ss_lock, ss_keys, ss_procs, ss_master, ss_env, ss_arg, ss_main>>
  /\ UNCHANGED <<ss_recorded, ss_signalled, ss_probe>>

\* The key test followed by a test that skips multiplexing only after a
\* failed spawn
CheckKeyIgnoresEnv(w) ==
  /\ ss_pc[w] = "check"
  /\ IF SshKey(ss_arg[w]) \in ss_keys
       THEN Return(w, "known")
       ELSE IF ~ss_master
         THEN Return(w, "skipped")
         ELSE /\ ss_pc' = [ss_pc EXCEPT ![w] = "probe"]
              /\ UNCHANGED <<ss_exit, ss_lock>>
  /\ UNCHANGED <<ss_keys, ss_procs, ss_master, ss_env, ss_arg, ss_main>>
  /\ UNCHANGED <<ss_recorded, ss_signalled, ss_probe>>

\* 'if key in _master_keys' and the test that skips multiplexing
CheckKey(w) ==
  /\ ss_pc[w] = "check"
  /\ IF SshKey(ss_arg[w]) \in ss_keys
       THEN Return(w, "known")
       ELSE IF ~ss_master \/ ss_env # "plain"
         THEN Return(w, "skipped")
         ELSE /\ ss_pc' = [ss_pc EXCEPT ![w] = "probe"]
              /\ UNCHANGED <<ss_exit, ss_lock>>
  /\ UNCHANGED <<ss_keys, ss_procs, ss_master, ss_env, ss_arg, ss_main>>
  /\ UNCHANGED <<ss_recorded, ss_signalled, ss_probe>>

\* 'ssh -O check': a session is running, none is, or the probe raises
Probe(w) ==
  /\ ss_pc[w] = "probe"
  /\ \E outcome \in {"running", "none", "raises"} :
       /\ ss_probe' = [ss_probe EXCEPT ![w] = outcome]
       /\ IF outcome = "running"
         THEN /\ ss_keys' = ss_keys \cup {SshKey(ss_arg[w])}
              /\ Return(w, "probed")
         ELSE /\ ss_pc' = [ss_pc EXCEPT ![w] = "spawn"]
              /\ UNCHANGED <<ss_keys, ss_exit, ss_lock>>
  /\ UNCHANGED <<ss_procs, ss_master, ss_env, ss_arg, ss_main>>
  /\ UNCHANGED <<ss_recorded, ss_signalled>>

\* A Popen whose failure leaves _ssh_master as it was
SpawnKeepsMaster(w) ==
  /\ ss_pc[w] = "spawn"
  /\ \E started \in BOOLEAN :
       IF started
         THEN /\ ss_pc' = [ss_pc EXCEPT ![w] = "sleep"]
              /\ UNCHANGED <<ss_exit, ss_lock>>
         ELSE Return(w, "spawnfail")
  /\ UNCHANGED <<ss_keys, ss_procs, ss_master, ss_env, ss_arg, ss_main>>
  /\ UNCHANGED <<ss_recorded, ss_signalled, ss_probe>>

\* subprocess.Popen(['ssh', '-M', '-N', ...]), which may raise
Spawn(w) ==
  /\ ss_pc[w] = "spawn"
  /\ \E started \in BOOLEAN :
       IF started
         THEN /\ ss_pc' = [ss_pc EXCEPT ![w] = "sleep"]
              /\ UNCHANGED <<ss_master, ss_exit, ss_lock>>
         ELSE /\ ss_master' = FALSE
              /\ Return(w, "spawnfail")
  /\ UNCHANGED <<ss_keys, ss_procs, ss_env, ss_arg, ss_main>>
  /\ UNCHANGED <<ss_recorded, ss_signalled, ss_probe>>

\* The liveness check that records the process of a session that has died
PollRecordsDead(w) ==
  /\ ss_pc[w] = "sleep"
  /\ ss_procs' = Append(ss_procs, SshKey(ss_arg[w]))
  /\ ss_recorded' = ss_recorded + 1
  /\ \E died \in BOOLEAN :
       IF died
         THEN Return(w, "died")
         ELSE /\ ss_pc' = [ss_pc EXCEPT ![w] = "add"]
              /\ UNCHANGED <<ss_exit, ss_lock>>
  /\ UNCHANGED <<ss_keys, ss_master, ss_env, ss_arg, ss_main>>
  /\ UNCHANGED <<ss_signalled, ss_probe>>

\* time.sleep(1); p.poll(); _master_processes.append(p)
Poll(w) ==
  /\ ss_pc[w] = "sleep"
  /\ \E died \in BOOLEAN :
       IF died
         THEN /\ Return(w, "died")
              /\ UNCHANGED <<ss_procs, ss_recorded>>
         ELSE /\ ss_procs' = Append(ss_procs, SshKey(ss_arg[w]))
              /\ ss_recorded' = ss_recorded + 1
              /\ ss_pc' = [ss_pc EXCEPT ![w] = "add"]
              /\ UNCHANGED <<ss_exit, ss_lock>>
  /\ UNCHANGED <<ss_keys, ss_master, ss_env, ss_arg, ss_main>>
  /\ UNCHANGED <<ss_signalled, ss_probe>>

\* _master_keys.add(key); return True
AddKey(w) ==
  /\ ss_pc[w] = "add"
  /\ ss_keys' = ss_keys \cup {SshKey(ss_arg[w])}
  /\ Return(w, "spawned")
  /\ UNCHANGED <<ss_procs, ss_master, ss_env, ss_arg, ss_main>>
  /\ UNCHANGED <<ss_recorded, ss_signalled, ss_probe>>

\* close_ssh, which takes no lock: terminate_ssh_clients(),
CloseTerminateClients ==
  /\ ss_main = "run"
  /\ ss_main' = "killing"
  /\ UNCHANGED <<ss_lock, ss_keys, ss_procs, ss_master, ss_env, ss_pc, ss_arg, ss_exit>>
  /\ UNCHANGED <<ss_recorded, ss_signalled, ss_probe>>

\* one turn of 'for p in _master_processes': the next process of the list,
\* as the list is now, is killed and waited for, or the loop ends,
CloseKill ==
  /\ ss_main = "killing"
  /\ IF ss_signalled < Len(ss_procs)
       THEN ss_signalled' = ss_signalled + 1 /\ UNCHANGED ss_main
       ELSE ss_main' = "killed" /\ UNCHANGED ss_signalled
  /\ UNCHANGED <<ss_lock, ss_keys, ss_procs, ss_master, ss_env, ss_pc, ss_arg, ss_exit>>
  /\ UNCHANGED <<ss_recorded, ss_probe>>

\* del _master_processes[:],
CloseClearProcesses ==
  /\ ss_main = "killed"
  /\ ss_procs' = <<>>
  /\ ss_main' = "noProcesses"
  /\ UNCHANGED <<ss_lock, ss_keys, ss_master, ss_env, ss_pc, ss_arg, ss_exit>>
  /\ UNCHANGED <<ss_recorded, ss_signalled, ss_probe>>

\* _master_keys.clear(),
CloseClearKeys ==
  /\ ss_main = "noProcesses"
  /\ ss_keys' = {}
  /\ ss_main' = "noKeys"
  /\ UNCHANGED <<ss_lock, ss_procs, ss_master, ss_env, ss_pc, ss_arg, ss_exit>>
  /\ UNCHANGED <<ss_recorded, ss_signalled, ss_probe>>

\* remove the socket directory; _master_keys_lock = None.
CloseDropLock ==
  /\ ss_main = "noKeys"
  /\ ss_lock' = "None"
  /\ ss_main' = "closed"
  /\ UNCHANGED <<ss_keys, ss_procs, ss_master, ss_env, ss_pc, ss_arg, ss_exit>>
  /\ UNCHANGED <<ss_recorded, ss_signalled, ss_probe>>

\* The module as imported, before init_ssh.
SsInit ==
  /\ ss_lock = "None"
  /\ ss_keys = {}
  /\ ss_procs = <<>>
  /\ ss_master = TRUE
  /\ ss_env \in {"plain", "GIT_SSH", "win32"}
  /\ ss_pc = [w \in Workers |-> "idle"]
  /\ ss_arg = [w \in Workers |-> NoArg]
  /\ ss_exit = [w \in Workers |-> "none"]
  /\ ss_main = "start"
  /\ ss_recorded = 0
  /\ ss_signalled = 0
  /\ ss_probe = [w \in Workers |-> "unset"]

SsIdle ==
  /\ ss_lock = "None"
  /\ ss_keys = {}
  /\ ss_procs = <<>>
  /\ ss_master = TRUE
  /\ ss_env = "plain"
  /\ ss_pc = [w \in Workers |-> "idle"]
  /\ ss_arg = [w \in Workers |-> NoArg]
  /\ ss_exit = [w \in Workers |-> "none"]
  /\ ss_main = "unused"
  /\ ss_recorded = 0
  /\ ss_signalled = 0
  /\ ss_probe = [w \in Workers |-> "unset"]

(***************************************************************************)
(* Manifest engine                                                         *)
(***************************************************************************)
MaxNodes == 3

\* An element with no attribute set; getAttribute gives '' for each. A
\* project element holds a nested project element of its own attributes
\* (child, childPath) and, in sub, nested project elements written out in
\* full, whose name and path are in their child and childPath.
Element(kind) ==
  [kind |-> kind, name |-> <<>>, path |-> <<>>, remote |-> <<>>, revision |-> "",
   groups |-> {}, fetch |-> "", alias |-> "", pushurl |-> "", review |-> "",
   child |-> <<>>, childPath |-> <<>>, sub |-> <<>>, enabled |-> <<>>]

RemoteO == [Element("remote") EXCEPT !.name = <<"o">>, !.fetch = "u"]

\* The remote elements named o that differ from RemoteO in one attribute,
\* and a remote of another name.
RemoteNodes ==
  {RemoteO,
   [RemoteO EXCEPT !.fetch = "u/"],
   [RemoteO EXCEPT !.pushurl = "p"],
   [RemoteO EXCEPT !.alias = "al"],
   [RemoteO EXCEPT !.review = "rv"],
   [RemoteO EXCEPT !.revision = "r2"],
   [RemoteO EXCEPT !.name = <<"o2">>]}

ProjectA == [Element("project") EXCEPT !.name = <<"a">>, !.remote = <<"o">>,
                                       !.revision = "r"]

\* The elements the documents are made of: names and paths are lists of
\* segments, a project element has at most one nested project element.
Nodes ==
  {RemoteO,
   [RemoteO EXCEPT !.fetch = "x"],
   [Element("default") EXCEPT !.remote = <<"o">>, !.revision = "r"],
   Element("notice"),
   Element("manifest-server"),
   ProjectA,
   [ProjectA EXCEPT !.path = <<"q">>, !.child = <<"c">>, !.childPath = <<"c">>],
   [Element("project") EXCEPT !.name = <<"b">>, !.path = <<"a">>],
   [Element("extend-project") EXCEPT !.name = <<"a">>, !.groups = {<<"g">>}],
   [Element("repo-hooks") EXCEPT !.name = <<"a">>, !.enabled = <<"pre-upload">>],
   [Element("remove-project") EXCEPT !.name = <<"a">>]}

\* The scenario of the groups: a remote o, with or without a fixed revision,
\* and a default naming it, then projects named libs/foo at two paths and
\* extend-project elements naming them, one of them with a path.
LibsFoo == [Element("project") EXCEPT !.name = <<"libs", "foo">>, !.path = <<"foo">>]

GroupPreambles ==
  {<<ro, [Element("default") EXCEPT !.remote = <<"o">>, !.revision = "main"]>> :
     ro \in {RemoteO, [RemoteO EXCEPT !.revision = "r2"]}}

GroupNodes ==
  {LibsFoo,
   [LibsFoo EXCEPT !.path = <<"bar">>, !.revision = "r", !.groups = {<<"pdk">>}],
   [Element("extend-project") EXCEPT !.name = <<"libs", "foo">>, !.groups = {<<"sdk">>}],
   [Element("extend-project") EXCEPT !.name = <<"libs", "foo">>, !.path = <<"bar">>,
                                     !.groups = {<<"x">>}]}

\* The scenario of removals: after the same remote and default, projects
\* named a at two paths, one with a nested project, a project b, the hooks
\* project and remove-project elements naming a and b.
RemoveNodes ==
  {[Element("project") EXCEPT !.name = <<"a">>],
   [Element("project") EXCEPT !.name = <<"a">>, !.path = <<"q">>, !.child = <<"c">>,
                              !.childPath = <<"c">>],
   [Element("project") EXCEPT !.name = <<"b">>],
   [Element("repo-hooks") EXCEPT !.name = <<"a">>, !.enabled = <<"pre-upload">>],
   [Element("remove-project") EXCEPT !.name = <<"a">>],
   [Element("remove-project") EXCEPT !.name = <<"b">>]}

\* The scenario of remotes and revisions: the remote o with and without a
\* fixed revision, defaults with a remote, a revision or both, and projects
\* named a with and without a remote and a revision of their own, one of
\* them naming a remote that no element declares.
ResolutionNodes ==
  {RemoteO,
   [RemoteO EXCEPT !.revision = "r2"],
   [Element("default") EXCEPT !.remote = <<"o">>],
   [Element("default") EXCEPT !.revision = "main"],
   [Element("default") EXCEPT !.remote = <<"o">>, !.revision = "main"],
   [Element("project") EXCEPT !.name = <<"a">>],
   [Element("project") EXCEPT !.name = <<"a">>, !.remote = <<"o">>],
   [Element("project") EXCEPT !.name = <<"a">>, !.revision = "r"],
   [Element("project") EXCEPT !.name = <<"a">>, !.remote = <<"u">>, !.revision = "r"]}

\* The scenario of the hooks project: after a remote and a default, and
\* with or without a project a that is already the hooks project, projects
\* a and b, repo-hooks elements naming a and b, one without an enabled-list,
\* and a remove-project of a.
HooksA == [Element("repo-hooks") EXCEPT !.name = <<"a">>, !.enabled = <<"pre-upload">>]

HooksNodes ==
  {[Element("project") EXCEPT !.name = <<"a">>],
   [Element("project") EXCEPT !.name = <<"a">>, !.path = <<"q">>],
   HooksA,
   [HooksA EXCEPT !.name = <<"b">>, !.enabled = <<"pre-upload", "x">>],
   [HooksA EXCEPT !.enabled = <<>>],
   [Element("remove-project") EXCEPT !.name = <<"a">>]}

ProjectKinds == {"project", "extend-project", "repo-hooks", "remove-project"}

Docs(S) == UNION {[1..n -> S] : n \in 0..MaxNodes}

GroupDocs == {pre \o tail : pre \in GroupPreambles, tail \in Docs(GroupNodes)}

HooksDocs ==
  {pre \o mid \o tail : pre \in GroupPreambles,
                         mid \in {<<>>, <<[Element("project") EXCEPT !.name = <<"a">>], HooksA>>},
                         tail \in Docs(HooksNodes)}

RemoveDocs == {pre \o tail : pre \in GroupPreambles, tail \in Docs(RemoveNodes)}

\* What repo.mirror and the urls of the two meta projects give: no mirror,
\* or per meta project the name taken from its url, or a url ending in /.git.
MirrorConfigs ==
  {<<>>,
   <<[dotgit |-> FALSE, name |-> <<"repo">>], [dotgit |-> FALSE, name |-> <<"q">>]>>,
   <<[dotgit |-> FALSE, name |-> <<"repo">>], [dotgit |-> TRUE, name |-> <<>>]>>}

\* fetchUrl.rstrip('/') joined to the manifest url; fetch urls are absolute
ResolveFetchUrl(fetch) == IF fetch = "u/" THEN "u" ELSE fetch

NoRemote ==
  [name |-> <<>>, fetchUrl |-> "", pushUrl |-> "", remoteAlias |-> "",
   reviewUrl |-> "", revision |-> "", resolvedFetchUrl |-> ""]

\* _ParseRemote and _XmlRemote.__init__
ParseRemote(n) ==
  [name |-> n.name, fetchUrl |-> n.fetch, pushUrl |-> n.pushurl,
   remoteAlias |-> n.alias, reviewUrl |-> n.review, revision |-> n.revision,
   resolvedFetchUrl |-> ResolveFetchUrl(n.fetch)]

\* _XmlRemote.__eq__ that looks at the name and the resolved fetch url only
SameRemoteByUrl(r1, r2) ==
  r1.name = r2.name /\ r1.resolvedFetchUrl = r2.resolvedFetchUrl

\* _XmlRemote.__eq__: the __dict__ of the two are equal
SameRemote(r1, r2) == r1 = r2

\* _default is None, and _Default()
NoDefault == [set |-> FALSE, remote |-> NoRemote, revisionExpr |-> ""]

EmptyDefault == [set |-> TRUE, remote |-> NoRemote, revisionExpr |-> ""]

NoHooks == [set |-> FALSE, name |-> <<>>, relpath |-> <<>>, enabled |-> <<>>]

\* The engine's fields as _Unload leaves them, err the error being raised.
UnloadedEngine ==
  [err |-> "", projects |-> EmptyMap, paths |-> EmptyMap, remotes |-> EmptyMap,
   default |-> NoDefault, hooks |-> NoHooks, notice |-> "None", server |-> "None"]

Engine ==
  [err |-> "", projects |-> mf_projects, paths |-> mf_paths, remotes |-> mf_remotes,
   default |-> mf_default, hooks |-> mf_repo_hooks_project, notice |-> mf_notice,
   server |-> mf_manifest_server]

Raise(e, kind) == [e EXCEPT !.err = kind]

\* _get_remote that takes an undeclared remote for no remote
GetRemoteLenient(e, n) ==
  IF n.remote \in DOMAIN e.remotes
    THEN [err |-> FALSE, remote |-> e.remotes[n.remote]]
    ELSE [err |-> FALSE, remote |-> NoRemote]

\* _get_remote: [err, remote]
GetRemote(e, n) ==
  IF n.remote = <<>> THEN [err |-> FALSE, remote |-> NoRemote]
  ELSE IF n.remote \in DOMAIN e.remotes
    THEN [err |-> FALSE, remote |-> e.remotes[n.remote]]
    ELSE [err |-> TRUE, remote |-> NoRemote]

\* _ParseProject for the element itself (parent = NoProject) or for its
\* nested element: [err, project]
NoProject ==
  [name |-> <<>>, relpath |-> <<>>, remote |-> <<>>, revisionExpr |-> "",
   groups |-> {}, parent |-> <<>>]

\* _ParseProject that leaves the default groups out
ParseProjectNoTags(e, n, parent) ==
  LET nested == parent # NoProject
      name == IF nested THEN parent.name \o n.child ELSE n.name
      got == GetRemote(e, n)
      remote == IF got.remote = NoRemote THEN e.default.remote ELSE got.remote
      rev1 == IF n.revision # "" THEN n.revision ELSE remote.revision
      revisionExpr == IF rev1 # "" THEN rev1 ELSE e.default.revisionExpr
      attr == IF nested THEN n.childPath ELSE n.path
      path == IF attr # <<>> THEN attr ELSE name
      relpath == IF nested THEN parent.relpath \o path ELSE path
  IN [err |-> got.err \/ remote = NoRemote \/ revisionExpr = "",
      project |-> [name |-> name, relpath |-> relpath, remote |-> remote.name,
                   revisionExpr |-> revisionExpr, groups |-> n.groups,
                   parent |-> parent.name]]

ParseProject(e, n, parent) ==
  LET nested == parent # NoProject
      name == IF nested THEN parent.name \o n.child ELSE n.name
      got == GetRemote(e, n)
      remote == IF got.remote = NoRemote THEN e.default.remote ELSE got.remote
      rev1 == IF n.revision # "" THEN n.revision ELSE remote.revision
      revisionExpr == IF rev1 # "" THEN rev1 ELSE e.default.revisionExpr
      attr == IF nested THEN n.childPath ELSE n.path
      path == IF attr # <<>> THEN attr ELSE name
      relpath == IF nested THEN parent.relpath \o path ELSE path
  IN [err |-> got.err \/ remote = NoRemote \/ revisionExpr = "",
      project |-> [name |-> name, relpath |-> relpath, remote |-> remote.name,
                   revisionExpr |-> revisionExpr,
                   groups |-> n.groups \cup {<<"all">>, <<"name">> \o name,
                                             <<"path">> \o relpath},
                   parent |-> parent.name]]

\* recursively_add_projects for one project that skips the path test
AddProjectAnyPath(e, p) ==
  [e EXCEPT !.paths = MapPut(e.paths, p.relpath, p),
            !.projects = MapPut(e.projects, p.name,
                                Append(Values(e.projects, p.name), p))]

\* recursively_add_projects for one project
AddProject(e, p) ==
  IF p.relpath \in DOMAIN e.paths
    THEN Raise(e, "project")
    ELSE [e EXCEPT !.paths = MapPut(e.paths, p.relpath, p),
                   !.projects = MapPut(e.projects, p.name,
                                       Append(Values(e.projects, p.name), p))]

\* recursively_add_projects for the nested projects, from the i-th on
RECURSIVE AddProjects(_, _, _)
AddProjects(e, ps, i) ==
  IF i > Len(ps) \/ e.err # "" THEN e
  ELSE AddProjects(AddProject(e, ps[i].project), ps, i + 1)

\* The extend-project loop without its test of the path
ExtendGroupsAnyPath(e, name, path, groups) ==
  LET ext(p) == IF p.name = name THEN [p EXCEPT !.groups = p.groups \cup groups] ELSE p
  IN [e EXCEPT !.projects = [k \in DOMAIN e.projects |->
                               [i \in DOMAIN e.projects[k] |-> ext(e.projects[k][i])]],
               !.paths = [k \in DOMAIN e.paths |-> ext(e.paths[k])]]

\* p.groups.extend(groups) on the Project in both indexes
ExtendGroups(e, name, path, groups) ==
  LET hit(p) == p.name = name /\ (path = <<>> \/ p.relpath = path)
      ext(p) == IF hit(p) THEN [p EXCEPT !.groups = p.groups \cup groups] ELSE p
  IN [e EXCEPT !.projects = [k \in DOMAIN e.projects |->
                               [i \in DOMAIN e.projects[k] |-> ext(e.projects[k][i])]],
               !.paths = [k \in DOMAIN e.paths |-> ext(e.paths[k])]]

\* The remove-project branch that leaves the paths index as it is
RemoveProjectKeepsPaths(e, name) ==
  IF name \notin DOMAIN e.projects THEN Raise(e, "remove-project")
  ELSE [e EXCEPT !.projects = MapDel(e.projects, name),
                 !.hooks = IF e.hooks.set /\ e.hooks.name = name THEN NoHooks ELSE e.hooks]

\* The remove-project branch that leaves the hooks project designated
RemoveProjectKeepsHooks(e, name) ==
  IF name \notin DOMAIN e.projects THEN Raise(e, "remove-project")
  ELSE LET gone == {e.projects[name][i].relpath : i \in DOMAIN e.projects[name]}
       IN [e EXCEPT !.paths = [k \in DOMAIN e.paths \ gone |-> e.paths[k]],
                    !.projects = MapDel(e.projects, name)]

\* The remove-project branch of _ParseManifest
RemoveProject(e, name) ==
  IF name \notin DOMAIN e.projects THEN Raise(e, "remove-project")
  ELSE LET gone == {e.projects[name][i].relpath : i \in DOMAIN e.projects[name]}
       IN [e EXCEPT !.paths = [k \in DOMAIN e.paths \ gone |-> e.paths[k]],
                    !.projects = MapDel(e.projects, name),
                    !.hooks = IF e.hooks.set /\ e.hooks.name = name THEN NoHooks
                              ELSE e.hooks]

\* The body of the loops of _ParseManifest for one node.
Apply(e, n) ==
  CASE n.kind = "remote" ->
         LET r == ParseRemote(n)
         IN IF r.name \in DOMAIN e.remotes
              THEN (IF SameRemote(r, e.remotes[r.name]) THEN e ELSE Raise(e, "remote"))
              ELSE [e EXCEPT !.remotes = MapPut(e.remotes, r.name, r)]
    [] n.kind = "default" ->
         LET got == GetRemote(e, n)
             d == [set |-> TRUE, remote |-> got.remote, revisionExpr |-> n.revision]
         IN IF got.err THEN Raise(e, "default")
            ELSE IF ~e.default.set THEN [e EXCEPT !.default = d]
            ELSE IF d # e.default THEN Raise(e, "default") ELSE e
    [] n.kind = "notice" ->
         IF e.notice # "None" THEN Raise(e, "notice") ELSE [e EXCEPT !.notice = "text"]
    [] n.kind = "manifest-server" ->
         IF e.server # "None" THEN Raise(e, "manifest-server")
         ELSE [e EXCEPT !.server = "url"]
    [] n.kind = "project" ->
         LET top == ParseProject(e, n, NoProject)
             nested == (IF n.child # <<>> THEN <<ParseProject(e, n, top.project)>>
                        ELSE <<>>)
                         \o [i \in DOMAIN n.sub |-> ParseProject(e, n.sub[i], top.project)]
         IN IF top.err \/ (\E i \in DOMAIN nested : nested[i].err)
              THEN Raise(e, "project")
              ELSE AddProjects(AddProject(e, top.project), nested, 1)
    [] n.kind = "extend-project" ->
         IF n.name \notin DOMAIN e.projects THEN Raise(e, "extend-project")
         ELSE ExtendGroups(e, n.name, n.path, n.groups)
    [] n.kind = "repo-hooks" ->
         IF n.name = <<>> \/ n.enabled = <<>> THEN Raise(e, "repo-hooks")
         ELSE IF e.hooks.set THEN Raise(e, "repo-hooks")
         ELSE IF n.name \notin DOMAIN e.projects THEN Raise(e, "repo-hooks")
         ELSE IF Len(e.projects[n.name]) # 1 THEN Raise(e, "repo-hooks")
         ELSE [e EXCEPT !.hooks = [set |-> TRUE, name |-> n.name,
                                   enabled |-> n.enabled,
                                   relpath |-> e.projects[n.name][1].relpath]]
    [] n.kind = "remove-project" -> RemoveProject(e, n.name)

\* One loop of _ParseManifest over the nodes, from the i-th on, handling the
\* node kinds in 'kinds'; it ends at the first error.
RECURSIVE Pass(_, _, _, _)
Pass(kinds, e, doc, i) ==
  IF i > Len(doc) \/ e.err # ""
    THEN e
    ELSE Pass(kinds, IF doc[i].kind \in kinds THEN Apply(e, doc[i]) ELSE e, doc, i + 1)

\* The missing default of _ParseManifest
FillDefault(e) == IF e.err = "" /\ ~e.default.set THEN [e EXCEPT !.default = EmptyDefault] ELSE e

\* _ParseManifest as one loop over all node kinds
ParseManifestOnePass(e, doc) ==
  FillDefault(Pass({"remote", "default", "notice", "manifest-server"} \cup ProjectKinds,
                   e, doc, 1))

\* _ParseManifest: remotes, defaults, notice, manifest-server, then one loop
\* for project, extend-project, repo-hooks and remove-project
ParseManifest(e, doc) ==
  Pass(ProjectKinds,
       Pass({"manifest-server"},
            Pass({"notice"},
                 FillDefault(Pass({"default"}, Pass({"remote"}, e, doc, 1), doc, 1)),
                 doc, 1),
            doc, 1),
       doc, 1)

\* _AddMetaProjectMirror
AddMetaProjectMirror(e, m) ==
  IF e.err # "" THEN e
  ELSE IF m.dotgit THEN Raise(e, "mirror")
  ELSE IF m.name \in DOMAIN e.projects THEN e
  ELSE LET p == [name |-> m.name, relpath |-> m.name, remote |-> <<"origin">>,
                 revisionExpr |-> "m", groups |-> {}, parent |-> <<>>]
       IN [e EXCEPT !.projects = MapPut(e.projects, p.name, <<p>>),
                    !.paths = MapPut(e.paths, p.relpath, p)]

\* The projects of the graph, each with name, path, remote, revision and
\* groups, and the hooks project.
Graph(e) == [projects |-> {e.paths[k] : k \in DOMAIN e.paths}, hooks |-> e.hooks]

\* The engine's fields become those of e.
Becomes(e) ==
  /\ mf_projects' = e.projects
  /\ mf_paths' = e.paths
  /\ mf_remotes' = e.remotes
  /\ mf_default' = e.default
  /\ mf_repo_hooks_project' = e.hooks
  /\ mf_notice' = e.notice
  /\ mf_manifest_server' = e.server

IsUnloaded == ~mf_loaded /\ Engine = UnloadedEngine

\* _Load on an engine that is not loaded
Load ==
  /\ ~mf_loaded
  /\ LET parsed == ParseManifest(Engine, mf_doc)
         mirrored == IF mf_mirror = <<>> THEN parsed
                     ELSE AddMetaProjectMirror(AddMetaProjectMirror(parsed, mf_mirror[1]),
                                               mf_mirror[2])
         called(how, at) == [op |-> "load", outcome |-> how, at |-> at,
                             clean |-> IsUnloaded]
     IN IF mf_includeMissing
          THEN /\ mf_branch' = "b"
               /\ mf_last' = called("ManifestParseError", "include")
               /\ UNCHANGED <<mf_loaded, mf_projects, mf_paths, mf_remotes, mf_default,
                              mf_repo_hooks_project, mf_notice, mf_manifest_server>>
          ELSE IF parsed.err # ""
            THEN /\ Becomes(UnloadedEngine)
                 /\ mf_branch' = "None"
                 /\ mf_loaded' = FALSE
                 /\ mf_last' = called("ManifestParseError", parsed.err)
            ELSE /\ Becomes(mirrored)
                 /\ mf_branch' = "b"
                 /\ mf_loaded' = (mirrored.err = "")
                 /\ mf_last' = IF mirrored.err = "" THEN called("ok", "")
                                ELSE called("ManifestParseError", mirrored.err)
  /\ UNCHANGED <<mf_doc, mf_includeMissing, mf_mirror, mf_prev>>

\* An unload that forgets the path index.
UnloadKeepingPaths ==
  /\ ~IsUnloaded
  /\ Becomes([UnloadedEngine EXCEPT !.paths = mf_paths])
  /\ mf_branch' = "None"
  /\ mf_loaded' = FALSE
  /\ mf_last' = [op |-> "unload", outcome |-> "ok", at |-> "", clean |-> FALSE]
  /\ mf_prev' = IF mf_loaded THEN [set |-> TRUE, graph |-> Graph(Engine)] ELSE mf_prev
  /\ UNCHANGED <<mf_doc, mf_includeMissing, mf_mirror>>

\* _Unload
Unload ==
  /\ ~IsUnloaded
  /\ Becomes(UnloadedEngine)
  /\ mf_branch' = "None"
  /\ mf_loaded' = FALSE
  /\ mf_last' = [op |-> "unload", outcome |-> "ok", at |-> "", clean |-> FALSE]
  /\ mf_prev' = IF mf_loaded THEN [set |-> TRUE, graph |-> Graph(Engine)] ELSE mf_prev
  /\ UNCHANGED <<mf_doc, mf_includeMissing, mf_mirror>>

\* A file that an include element names is removed.
RemoveIncluded ==
  /\ ~mf_includeMissing
  /\ mf_includeMissing' = TRUE
  /\ UNCHANGED <<mf_doc, mf_mirror, mf_loaded, mf_projects, mf_paths, mf_remotes,
                 mf_default, mf_repo_hooks_project, mf_notice, mf_manifest_server,
                 mf_branch, mf_last, mf_prev>>

NoGraph == [set |-> FALSE, graph |-> Graph(UnloadedEngine)]

\* XmlManifest.__init__, on a document of D
MfInitDocs(D) ==
  /\ mf_doc \in D
  /\ mf_includeMissing = FALSE
  /\ mf_mirror \in MirrorConfigs
  /\ mf_loaded = FALSE
  /\ mf_projects = EmptyMap
  /\ mf_paths = EmptyMap
  /\ mf_remotes = EmptyMap
  /\ mf_default = NoDefault
  /\ mf_repo_hooks_project = NoHooks
  /\ mf_notice = "None"
  /\ mf_manifest_server = "None"
  /\ mf_branch = "None"
  /\ mf_last = [op |-> "init", outcome |-> "ok", at |-> "", clean |-> TRUE]
  /\ mf_prev = NoGraph

\* XmlManifest.__init__, on the documents made of the nodes in S
MfInitOn(S) == MfInitDocs(Docs(S))

MfIdle ==
  /\ mf_doc = <<>>
  /\ mf_includeMissing = FALSE
  /\ mf_mirror = <<>>
  /\ mf_loaded = FALSE
  /\ mf_projects = EmptyMap
  /\ mf_paths = EmptyMap
  /\ mf_remotes = EmptyMap
  /\ mf_default = NoDefault
  /\ mf_repo_hooks_project = NoHooks
  /\ mf_notice = "None"
  /\ mf_manifest_server = "None"
  /\ mf_branch = "None"
  /\ mf_last = [op |-> "idle", outcome |-> "ok", at |-> "", clean |-> TRUE]
  /\ mf_prev = NoGraph

(***************************************************************************)
(* Process Executor: the registry of ssh clients                           *)
(***************************************************************************)
\* The elements of a list.
Range(l) == {l[i] : i \in DOMAIN l}

\* list.remove(x): the list without the first x
RECURSIVE RemoveFirst(_, _)
RemoveFirst(l, x) ==
  IF l = <<>> THEN <<>>
  ELSE IF Head(l) = x THEN Tail(l)
  ELSE <<Head(l)>> \o RemoveFirst(Tail(l), x)

\* GitCommand.__init__ with ssh_proxy: subprocess.Popen has returned
SpawnClient(w) ==
  /\ cl_pc[w] = "idle"
  /\ cl_pc' = [cl_pc EXCEPT ![w] = "spawned"]
  /\ UNCHANGED <<cl_list, cl_killed, cl_term, cl_i, cl_lost>>

\* _add_ssh_client(p)
AddSshClient(w) ==
  /\ cl_pc[w] = "spawned"
  /\ cl_list' = Append(cl_list, w)
  /\ cl_pc' = [cl_pc EXCEPT ![w] = "registered"]
  /\ UNCHANGED <<cl_killed, cl_term, cl_i, cl_lost>>

\* GitCommand.Wait: _CaptureOutput returns or raises, then the finally
\* clause calls _remove_ssh_client(p), which ignores a missing p
Wait(w) ==
  /\ cl_pc[w] = "registered"
  /\ cl_list' = RemoveFirst(cl_list, w)
  /\ cl_pc' = [cl_pc EXCEPT ![w] = "idle"]
  /\ cl_killed' = cl_killed \ {w}
  /\ UNCHANGED <<cl_term, cl_i, cl_lost>>

\* terminate_ssh_clients is called
TerminateSshClients ==
  /\ cl_term = "idle"
  /\ cl_term' = "loop"
  /\ UNCHANGED <<cl_list, cl_pc, cl_killed, cl_i, cl_lost>>

\* One turn of 'for p in _ssh_clients': the list iterator gives the element
\* at its index in the list as it is now, which is killed and waited for, or
\* the loop ends.
KillClient ==
  /\ cl_term = "loop"
  /\ IF cl_i < Len(cl_list)
       THEN /\ cl_killed' = cl_killed \cup {cl_list[cl_i + 1]}
            /\ cl_i' = cl_i + 1
            /\ UNCHANGED cl_term
       ELSE /\ cl_term' = "rebind"
            /\ UNCHANGED <<cl_killed, cl_i>>
  /\ UNCHANGED <<cl_list, cl_pc, cl_lost>>

\* _ssh_clients = []
ForgetClients ==
  /\ cl_term = "rebind"
  /\ cl_list' = <<>>
  /\ cl_lost' = {w \in Workers : cl_pc[w] = "registered"} \ cl_killed
  /\ cl_term' = "done"
  /\ UNCHANGED <<cl_pc, cl_killed, cl_i>>

\* The module as imported
ClInit ==
  /\ cl_list = <<>>
  /\ cl_pc = [w \in Workers |-> "idle"]
  /\ cl_killed = {}
  /\ cl_term = "idle"
  /\ cl_i = 0
  /\ cl_lost = {}

ClIdle == ClInit

(***************************************************************************)
(* Process Executor: _CaptureOutput                                        *)
(***************************************************************************)
\* The most bytes one read of a pipe gives; the code asks for 4096 and a
\* non-blocking read gives what has arrived.
MaxChunk == 2

Streams == {"stdout", "stderr"}

\* What the child writes to a stream, byte by byte: "a" and "b" are ASCII,
\* "C3" "A9" is the UTF-8 encoding of one character.
StreamBytes == {<<>>, <<"a">>, <<"a", "b">>, <<"C3", "A9">>, <<"a", "C3", "A9">>}

\* bytes.decode(): [ok, text], ok FALSE for UnicodeDecodeError
RECURSIVE Decode(_)
Decode(b) ==
  IF b = <<>> THEN [ok |-> TRUE, text |-> <<>>]
  ELSE IF Head(b) = "C3"
    THEN IF Len(b) >= 2 /\ b[2] = "A9"
           THEN LET rest == Decode(SubSeq(b, 3, Len(b)))
                IN [ok |-> rest.ok, text |-> <<"e'">> \o rest.text]
           ELSE [ok |-> FALSE, text |-> <<>>]
  ELSE IF Head(b) = "A9" THEN [ok |-> FALSE, text |-> <<>>]
  ELSE LET rest == Decode(Tail(b))
       IN [ok |-> rest.ok, text |-> <<Head(b)>> \o rest.text]

\* What is appended for a chunk: the chunk itself when it is a str, which
\* has 'encode', and buf.decode() when it is bytes.
Chunk(buf) == IF co_py = 2 THEN [ok |-> TRUE, text |-> buf] ELSE Decode(buf)

\* One turn of the loop for a stream that select reports as ready, with a
\* read that gives n bytes: the chunk is decoded and appended.
ReadChunk(s, n) ==
  /\ co_rc = "none"
  /\ s \in co_in
  /\ n \in 1..MaxChunk
  /\ n <= Len(co_left[s])
  /\ LET c == Chunk(SubSeq(co_left[s], 1, n))
     IN /\ co_left' = [co_left EXCEPT ![s] = SubSeq(co_left[s], n + 1, Len(co_left[s]))]
        /\ IF ~c.ok
             THEN co_rc' = "raised" /\ UNCHANGED <<co_stdout, co_stderr>>
             ELSE /\ UNCHANGED co_rc
                  /\ IF s = "stdout"
                       THEN co_stdout' = co_stdout \o c.text /\ UNCHANGED co_stderr
                       ELSE co_stderr' = co_stderr \o c.text /\ UNCHANGED co_stdout
  /\ UNCHANGED <<co_py, co_in>>

\* One turn of the loop for a stream at end-of-file: the read gives nothing
\* and the stream leaves s_in.
ReadEof(s) ==
  /\ co_rc = "none"
  /\ s \in co_in
  /\ co_left[s] = <<>>
  /\ co_in' = co_in \ {s}
  /\ UNCHANGED <<co_py, co_left, co_stdout, co_stderr, co_rc>>

\* s_in is empty: return p.wait()
WaitChild ==
  /\ co_rc = "none"
  /\ co_in = {}
  /\ co_rc' = "rc"
  /\ UNCHANGED <<co_py, co_left, co_in, co_stdout, co_stderr>>

\* _CaptureOutput is entered for a child that writes any of the streams.
CoInit ==
  /\ co_py \in {2, 3}
  /\ co_left \in [Streams -> StreamBytes]
  /\ co_in = Streams
  /\ co_stdout = <<>>
  /\ co_stderr = <<>>
  /\ co_rc = "none"

CoIdle ==
  /\ co_py = 3
  /\ co_left = [s \in Streams |-> <<>>]
  /\ co_in = {}
  /\ co_stdout = <<>>
  /\ co_stderr = <<>>
  /\ co_rc = "rc"

(***************************************************************************)
(* Process Executor: the environment of the child                          *)
(***************************************************************************)
\* The variables GitCommand.__init__ deletes from the copy of os.environ
Stripped ==
  {"REPO_TRACE", "GIT_DIR", "GIT_ALTERNATE_OBJECT_DIRECTORIES", "GIT_OBJECT_DIRECTORY",
   "GIT_WORK_TREE", "GIT_GRAFT_FILE", "GIT_INDEX_FILE"}

\* The variables the parent may have set, one of them not git's.
EnvNames == Stripped \cup {"PATH"}

\* The environments of the parent: any of the variables, each set to "p".
Environs == UNION {[S -> {"p"}] : S \in SUBSET EnvNames}

\* The calls: bare or not, with the gitdir argument and the gitdir of the
\* project argument, "" where there is none.
Calls == [bare : BOOLEAN, gitdir : {"", "g"}, projectGitdir : {"", "pg"}]

\* value.encode() of _setenv: the bytes of a str
Encode(v) == <<"bytes", v>>

\* The env of the child that keeps an inherited GIT_INDEX_FILE
ChildEnvKeepsIndexFile(environ, call) ==
  LET env == [k \in DOMAIN environ \ (Stripped \ {"GIT_INDEX_FILE"}) |-> environ[k]]
      gitdir == IF call.gitdir # "" THEN call.gitdir ELSE call.projectGitdir
      env1 == IF "GIT_ALLOW_PROTOCOL" \in DOMAIN env THEN env
              ELSE MapPut(env, "GIT_ALLOW_PROTOCOL", Encode("file:git:http:https:ssh:persistent-http:persistent-https:sso:rpc"))
  IN IF call.bare /\ gitdir # "" THEN MapPut(env1, "GIT_DIR", Encode(gitdir)) ELSE env1

\* The env GitCommand.__init__ builds: a copy of os.environ without the
\* stripped variables, then GIT_ALLOW_PROTOCOL when missing and GIT_DIR for
\* a bare call with a gitdir, its own or the project's.
ChildEnv(environ, call) ==
  LET env == [k \in DOMAIN environ \ Stripped |-> environ[k]]
      gitdir == IF call.gitdir # "" THEN call.gitdir ELSE call.projectGitdir
      env1 == IF "GIT_ALLOW_PROTOCOL" \in DOMAIN env THEN env
              ELSE MapPut(env, "GIT_ALLOW_PROTOCOL", Encode("file:git:http:https:ssh:persistent-http:persistent-https:sso:rpc"))
  IN IF call.bare /\ gitdir # "" THEN MapPut(env1, "GIT_DIR", Encode(gitdir)) ELSE env1

NotSpawned == [spawned |-> FALSE, env |-> EmptyMap]

\* GitCommand.__init__ up to subprocess.Popen(command, env = env, ...)
SpawnGit ==
  /\ ~en_child.spawned
  /\ en_child' = [spawned |-> TRUE, env |-> ChildEnv(en_environ, en_call)]
  /\ UNCHANGED <<en_environ, en_call>>

\* The next GitCommand(...), with other arguments
NextCall ==
  /\ en_child.spawned
  /\ en_call' \in Calls \ {en_call}
  /\ en_child' = NotSpawned
  /\ UNCHANGED en_environ

EnInit ==
  /\ en_environ \in Environs
  /\ en_call \in Calls
  /\ en_child = NotSpawned

EnIdle ==
  /\ en_environ = EmptyMap
  /\ en_call = [bare |-> FALSE, gitdir |-> "", projectGitdir |-> ""]
  /\ en_child = NotSpawned

(***************************************************************************)
(* Remote.ToLocal and Branch.LocalMerge                                    *)
(***************************************************************************)
\* 'refs/'
Refs == <<"r", "e", "f", "s", "/">>

R_HEADS == Refs \o <<"h", "e", "a", "d", "s", "/">>

HexDigits == {"0", "1", "2", "3", "4", "5", "6", "7", "8", "9", "a", "b", "c", "d", "e", "f"}

IdLen == 40

\* ID_RE.match(rev) with ID_RE = ^[0-9a-f]{40}$ : in a Python pattern $
\* matches at the end of the string and also just before a newline that
\* ends the string.
IsId(rev) ==
  /\ Len(rev) \in {IdLen, IdLen + 1}
  /\ \A i \in 1..IdLen : rev[i] \in HexDigits
  /\ Len(rev) = IdLen + 1 => rev[IdLen + 1] = "\n"

AnId == [i \in 1..IdLen |-> IF i % 2 = 0 THEN "0" ELSE "f"]

\* The revisions asked for: none, bare names, refs under refs/heads/ and
\* elsewhere, an id, and strings that are nearly ids.
Revs ==
  {<<>>, <<"m">>, R_HEADS \o <<"m">>, R_HEADS \o <<"x">>,
   Refs \o <<"t", "a", "g", "s", "/", "v">>, Refs \o <<"x">>,
   AnId, AnId \o <<"\n">>, AnId \o <<"0">>, SubSeq(AnId, 1, IdLen - 1),
   SubSeq(AnId, 1, IdLen - 1) \o <<"g">>}

\* The RefSpecs of a remote: the default one of ResetFetch, one for a
\* single branch, one for any ref and one for tags.
FetchSpecs ==
  {[src |-> R_HEADS \o <<"*">>, dst |-> Refs \o <<"r", "/", "o", "/", "*">>],
   [src |-> R_HEADS \o <<"m">>, dst |-> Refs \o <<"k">>],
   [src |-> Refs \o <<"*">>, dst |-> Refs \o <<"a", "/", "*">>],
   [src |-> Refs \o <<"t", "a", "g", "s", "/", "*">>,
    dst |-> Refs \o <<"t", "a", "g", "s", "/", "*">>]}

MaxFetch == 2

FetchLists == UNION {[1..n -> FetchSpecs] : n \in 0..MaxFetch}

\* The index of the RefSpec the loop 'for spec in self.fetch' stops at, 0
\* when it runs to the end.
FirstMatch(fetch, rev) ==
  LET M == {i \in DOMAIN fetch : SourceMatches(fetch[i].src, rev)}
  IN IF M = {} THEN 0 ELSE CHOOSE i \in M : \A j \in M : i <= j

Returns(v) == [raised |-> FALSE, value |-> v]

GitError == [raised |-> TRUE, value |-> <<>>]

\* ToLocal mapping with the last RefSpec that matches
ToLocalLastMatch(name, fetch, rev) ==
  IF name = "." \/ IsId(rev) THEN Returns(rev)
  ELSE LET q == IF StartsWith(rev, Refs) THEN rev ELSE R_HEADS \o rev
           M == {i \in DOMAIN fetch : SourceMatches(fetch[i].src, q)}
           i == IF M = {} THEN 0 ELSE CHOOSE k \in M : \A j \in M : j <= k
       IN IF i # 0 THEN Returns(MapSource(fetch[i].src, fetch[i].dst, q))
          ELSE IF ~StartsWith(q, R_HEADS) THEN Returns(q)
          ELSE GitError

\* ToLocal returning what it could not map
ToLocalReturnsUnmatched(name, fetch, rev) ==
  IF name = "." \/ IsId(rev) THEN Returns(rev)
  ELSE LET q == IF StartsWith(rev, Refs) THEN rev ELSE R_HEADS \o rev
           i == FirstMatch(fetch, q)
       IN IF i # 0 THEN Returns(MapSource(fetch[i].src, fetch[i].dst, q))
          ELSE Returns(q)

\* Remote.ToLocal(rev)
ToLocal(name, fetch, rev) ==
  IF name = "." \/ IsId(rev) THEN Returns(rev)
  ELSE LET q == IF StartsWith(rev, Refs) THEN rev ELSE R_HEADS \o rev
           i == FirstMatch(fetch, q)
       IN IF i # 0 THEN Returns(MapSource(fetch[i].src, fetch[i].dst, q))
          ELSE IF ~StartsWith(q, R_HEADS) THEN Returns(q)
          ELSE GitError

NoCall == [op |-> "none", kind |-> "none", value |-> <<>>]

Outcome(op, r) ==
  [op |-> op, kind |-> IF r.raised THEN "GitError" ELSE "value", value |-> r.value]

\* remote.ToLocal(rev), called on the remote itself
ToLocalCall ==
  /\ tl_out.op = "none"
  /\ tl_out' = Outcome("ToLocal", ToLocal(tl_name, tl_fetch, tl_rev))
  /\ UNCHANGED <<tl_name, tl_fetch, tl_rev, tl_hasRemote>>

\* branch.LocalMerge
LocalMerge ==
  /\ tl_out.op = "none"
  /\ tl_out' = IF tl_hasRemote /\ tl_rev # <<>>
                 THEN Outcome("LocalMerge", ToLocal(tl_name, tl_fetch, tl_rev))
                 ELSE [op |-> "LocalMerge", kind |-> "None", value |-> <<>>]
  /\ UNCHANGED <<tl_name, tl_fetch, tl_rev, tl_hasRemote>>

TlInit ==
  /\ tl_name \in {".", "o"}
  /\ tl_fetch \in FetchLists
  /\ tl_rev \in Revs
  /\ tl_hasRemote \in BOOLEAN
  /\ tl_out = NoCall

TlIdle ==
  /\ tl_name = "."
  /\ tl_fetch = <<>>
  /\ tl_rev = <<>>
  /\ tl_hasRemote = FALSE
  /\ tl_out = NoCall

(***************************************************************************)
(* url.<replacement>.insteadof                                             *)
(***************************************************************************)
UiUrls == {<<"h", "/", "a", "/", "b">>, <<"g">>}

\* The insteadof values: two prefixes of the first url, one of them longer,
\* and a prefix of neither url.
UiPrefixes == {<<"h">>, <<"h", "/", "a">>, <<"x">>}

\* The subsections of 'url': the replacements.
UiReplacements == {<<"X">>, <<"Y">>}

MaxInsteadOf == 2

\* The values of one url.<replacement>.insteadof key, in file order.
InsteadOfLists ==
  {l \in UNION {[1..n -> UiPrefixes] : n \in 1..MaxInsteadOf} :
     \A i, j \in DOMAIN l : l[i] = l[j] => i = j}

\* The orders in which a loop may go through the set S: a Python set has
\* no order of its own.
Iterations(S) ==
  {o \in [1..Cardinality(S) -> S] : \A i, j \in DOMAIN o : o[i] = o[j] => i = j}

\* The (new_url, old_url) pairs in the order the two nested loops reach them
RECURSIVE Pairs(_, _)
Pairs(order, map) ==
  IF order = <<>> THEN <<>>
  ELSE [i \in DOMAIN map[order[1]] |-> [new |-> order[1], old |-> map[order[1]][i]]]
         \o Pairs(Tail(order), map)

\* GitConfig.UrlInsteadOf: the first pair whose old_url is a prefix of url
UrlInsteadOfIn(order, map, url) ==
  LET ps == Pairs(order, map)
      M == {i \in DOMAIN ps : StartsWith(url, ps[i].old)}
  IN IF M = {} THEN url
     ELSE LET i == CHOOSE k \in M : \A j \in M : k <= j
          IN ps[i].new \o SliceFrom(url, Len(ps[i].old))

\* Remote._InsteadOf: the first of the longest insteadof values that are a
\* prefix of url; url.replace(longest, longestUrl, 1) replaces that prefix.
InsteadOfIn(order, map, url) ==
  LET ps == Pairs(order, map)
      M == {i \in DOMAIN ps : StartsWith(url, ps[i].old) /\ Len(ps[i].old) > 0}
  IN IF M = {} THEN url
     ELSE LET i == CHOOSE k \in M :
                     /\ \A j \in M : Len(ps[j].old) <= Len(ps[k].old)
                     /\ \A j \in M : Len(ps[j].old) = Len(ps[k].old) => k <= j
          IN ps[i].new \o SliceFrom(url, Len(ps[i].old))

\* config.UrlInsteadOf(url)
UrlInsteadOf ==
  \E order \in Iterations(DOMAIN ui_map) :
    /\ ui_out.op = "none"
    /\ ui_out' = [op |-> "UrlInsteadOf", value |-> UrlInsteadOfIn(order, ui_map, ui_url)]
    /\ UNCHANGED <<ui_map, ui_url>>

\* remote._InsteadOf() of a remote whose url is ui_url
InsteadOf ==
  \E order \in Iterations(DOMAIN ui_map) :
    /\ ui_out.op = "none"
    /\ ui_out' = [op |-> "_InsteadOf", value |-> InsteadOfIn(order, ui_map, ui_url)]
    /\ UNCHANGED <<ui_map, ui_url>>

UiInit ==
  /\ ui_map \in UNION {[S -> InsteadOfLists] : S \in SUBSET UiReplacements}
  /\ ui_url \in UiUrls
  /\ ui_out = [op |-> "none", value |-> <<>>]

UiIdle ==
  /\ ui_map = EmptyMap
  /\ ui_url = <<>>
  /\ ui_out = [op |-> "none", value |-> <<>>]

(***************************************************************************)
(* XmlManifest.projectsDiff                                                *)
(***************************************************************************)
\* The path keys, in sorted order.
PdPaths == <<"p", "q", "r">>

\* What GetCommitRevisionId gives for a project: a commit id, or "invalid"
\* when it raises ManifestInvalidRevisionError.
PdRevs == {"c1", "c2", "invalid"}

\* The paths tables: path key -> the project's revision.
PdTables == UNION {[S -> PdRevs] : S \in SUBSET {PdPaths[i] : i \in DOMAIN PdPaths}}

\* sorted(d.keys())
SortedKeys(d) == SelectSeq(PdPaths, LAMBDA k : k \in DOMAIN d)

\* list.remove(x)
ListRemove(l, x) == SelectSeq(l, LAMBDA k : k # x)

EmptyDiff == [added |-> <<>>, removed |-> <<>>, changed |-> <<>>, unreachable |-> <<>>]

\* The loop over fromKeys from its i-th key on, with the diff and toKeys so far
RECURSIVE DiffLoop(_, _, _, _, _, _)
DiffLoop(from, to, fromKeys, i, toKeys, diff) ==
  IF i > Len(fromKeys) THEN [diff |-> diff, toKeys |-> toKeys]
  ELSE LET proj == fromKeys[i]
       IN IF \A j \in DOMAIN toKeys : toKeys[j] # proj
            THEN DiffLoop(from, to, fromKeys, i + 1, toKeys,
                          [diff EXCEPT !.removed = Append(@, proj)])
            ELSE DiffLoop(from, to, fromKeys, i + 1, ListRemove(toKeys, proj),
                          IF from[proj] = "invalid" \/ to[proj] = "invalid"
                            THEN [diff EXCEPT !.unreachable = Append(@, proj)]
                            ELSE IF from[proj] # to[proj]
                              THEN [diff EXCEPT !.changed = Append(@, proj)]
                              ELSE diff)

\* projectsDiff that does not take the keys it has compared out of toKeys
ProjectsDiffKeepsToKeys(from, to) ==
  LET r == DiffLoop(from, to, SortedKeys(from), 1, SortedKeys(to), EmptyDiff)
  IN [r.diff EXCEPT !.added = SortedKeys(to)]

\* self.projectsDiff(manifest) on the two paths tables; the projects in the
\* four lists are named by their path key.
ProjectsDiff(from, to) ==
  LET r == DiffLoop(from, to, SortedKeys(from), 1, SortedKeys(to), EmptyDiff)
  IN [r.diff EXCEPT !.added = r.toKeys]

\* A.projectsDiff(B)
DiffAB ==
  /\ pd_out.op = "none"
  /\ pd_out' = [op |-> "A.projectsDiff(B)", diff |-> ProjectsDiff(pd_a, pd_b)]
  /\ UNCHANGED <<pd_a, pd_b>>

\* B.projectsDiff(A)
DiffBA ==
  /\ pd_out.op = "none"
  /\ pd_out' = [op |-> "B.projectsDiff(A)", diff |-> ProjectsDiff(pd_b, pd_a)]
  /\ UNCHANGED <<pd_a, pd_b>>

PdInit ==
  /\ pd_a \in PdTables
  /\ pd_b \in PdTables
  /\ pd_out = [op |-> "none", diff |-> EmptyDiff]

PdIdle ==
  /\ pd_a = EmptyMap
  /\ pd_b = EmptyMap
  /\ pd_out = [op |-> "none", diff |-> EmptyDiff]

(***************************************************************************)
(* XmlManifest.Save                                                        *)
(***************************************************************************)
\* The names of projects and remotes, in sorted order.
SortedNames == <<<<"a">>, <<"a", "c">>, <<"b">>, <<"o">>>>

\* sorted(S) for a set of names
Sorted(S) == SelectSeq(SortedNames, LAMBDA n : n \in S)

\* os.path.relpath(name, parent)
Unjoin(parent, name) ==
  IF StartsWith(name, parent) THEN SliceFrom(name, Len(parent)) ELSE <<"..">> \o name

\* p.subprojects: the projects parsed from the elements nested in p's
Subprojects(e, p) ==
  {q \in {e.paths[k] : k \in DOMAIN e.paths} :
     /\ q.parent # <<>>
     /\ q.parent = p.name
     /\ StartsWith(q.relpath, p.relpath)
     /\ Len(q.relpath) > Len(p.relpath)}

\* _RemoteToXml
RemoteToXml(r) ==
  [Element("remote") EXCEPT !.name = r.name, !.fetch = r.fetchUrl, !.pushurl = r.pushUrl,
                            !.alias = r.remoteAlias, !.review = r.reviewUrl,
                            !.revision = r.revision]

\* output_project and output_projects of Save, without group filter and
\* with peg_rev off: the element of project p, and the elements of the
\* projects of the names from the i-th on, in the order they are written.
RECURSIVE OutputProject(_, _, _)
RECURSIVE OutputProjects(_, _, _, _)
OutputProject(e, parent, p) ==
  LET d == e.default
      nested == parent # NoProject
      name == IF nested THEN Unjoin(parent.name, p.name) ELSE p.name
      relpath == IF nested THEN Unjoin(parent.relpath, p.relpath) ELSE p.relpath
      revision == IF e.remotes[p.remote].revision # "" THEN e.remotes[p.remote].revision
                  ELSE d.revisionExpr
      default_groups == {<<"all">>, <<"name">> \o p.name, <<"path">> \o p.relpath}
      subs == Subprojects(e, p)
      el == [Element("project") EXCEPT
               !.remote = IF d.remote = NoRemote \/ p.remote # d.remote.name
                            THEN p.remote ELSE <<>>,
               !.revision = IF revision = "" \/ revision # p.revisionExpr
                              THEN p.revisionExpr ELSE "",
               !.groups = p.groups \ default_groups,
               !.sub = IF subs # {}
                         THEN OutputProjects(e, p, Sorted({q.name : q \in subs}), 1)
                         ELSE <<>>]
  IN IF nested
       THEN [el EXCEPT !.child = name,
                       !.childPath = IF relpath # name THEN relpath ELSE <<>>]
       ELSE [el EXCEPT !.name = name,
                       !.path = IF relpath # name THEN relpath ELSE <<>>]

OutputProjects(e, parent, names, i) ==
  IF i > Len(names) THEN <<>>
  ELSE [k \in DOMAIN e.projects[names[i]] |-> OutputProject(e, parent, e.projects[names[i]][k])]
         \o OutputProjects(e, parent, names, i + 1)

\* Save: the elements of the document it writes, in order
Save(e) ==
  LET d == e.default
      remotes == Sorted(DOMAIN e.remotes)
      top == {e.paths[k].name : k \in {k \in DOMAIN e.paths : e.paths[k].parent = <<>>}}
  IN (IF e.notice # "None" THEN <<Element("notice")>> ELSE <<>>)
       \o [i \in DOMAIN remotes |-> RemoteToXml(e.remotes[remotes[i]])]
       \o (IF d.remote # NoRemote \/ d.revisionExpr # ""
             THEN <<[Element("default") EXCEPT !.remote = d.remote.name,
                                               !.revision = d.revisionExpr]>>
             ELSE <<>>)
       \o (IF e.server # "None" THEN <<Element("manifest-server")>> ELSE <<>>)
       \o OutputProjects(e, NoProject, Sorted(top), 1)
       \o (IF e.hooks.set THEN <<[Element("repo-hooks") EXCEPT !.name = e.hooks.name,
                                                           !.enabled = e.hooks.enabled]>>
           ELSE <<>>)

\* The document is resolved by an unloaded engine, in a workspace that is
\* no mirror.
SvLoad ==
  /\ sv_pc = "new"
  /\ LET e == ParseManifest(UnloadedEngine, sv_doc)
     IN /\ sv_engine' = IF e.err = "" THEN e ELSE UnloadedEngine
        /\ sv_pc' = IF e.err = "" THEN "loaded" ELSE "failed"
  /\ UNCHANGED <<sv_doc, sv_saved, sv_again>>

\* manifest.Save(fd)
SvSave ==
  /\ sv_pc = "loaded"
  /\ sv_saved' = Save(sv_engine)
  /\ sv_pc' = "saved"
  /\ UNCHANGED <<sv_doc, sv_engine, sv_again>>

\* The document Save wrote is resolved by an unloaded engine.
SvLoadSaved ==
  /\ sv_pc = "saved"
  /\ sv_again' = ParseManifest(UnloadedEngine, sv_saved)
  /\ sv_pc' = "again"
  /\ UNCHANGED <<sv_doc, sv_engine, sv_saved>>

SvInit ==
  /\ sv_doc \in Docs(Nodes)
  /\ sv_engine = UnloadedEngine
  /\ sv_saved = <<>>
  /\ sv_again = UnloadedEngine
  /\ sv_pc = "new"

SvIdle ==
  /\ sv_doc = <<>>
  /\ sv_engine = UnloadedEngine
  /\ sv_saved = <<>>
  /\ sv_again = UnloadedEngine
  /\ sv_pc = "idle"


(***************************************************************************)
(* _Main                                                                   *)
(***************************************************************************)
\* The ways repo._Run(argv) ends.
Outcomes == {"return", "interrupt", "parseError", "exception"}

\* 'result = repo._Run(argv) or 0' ends: a normal return has joined its
\* worker threads, an interrupt or an error may leave them running.
MainRun(o) ==
  /\ ss_main = "run"
  /\ mn_outcome = "none"
  /\ o = "return" => \A w \in Workers : ss_pc[w] = "idle"
  /\ mn_outcome' = o
  /\ UNCHANGED mn_result

\* After the finally clause: the except clauses and sys.exit(result), or
\* the traceback of an exception that no clause catches.
MainReport ==
  /\ ss_main = "closed"
  /\ mn_result = "none"
  /\ mn_result' = CASE mn_outcome = "return" -> "0"
                    [] mn_outcome \in {"interrupt", "parseError"} -> "1"
                    [] OTHER -> "traceback"
  /\ UNCHANGED mn_outcome

MnInit == mn_outcome = "none" /\ mn_result = "none"

MnIdle == MnInit


(***************************************************************************)
(* Reference Cache: chains of symbolic refs                                *)
(***************************************************************************)
\* One level more than the passes of the scan.
MaxChain == MaxAttempts + 1

\* Loose files that hold 'ref: <name>', and what the first of them names:
\* a ref with a commit id, a ref that does not exist, or the last of them.
SymNames == <<"refs/s1", "refs/s2", "refs/s3", "refs/s4", "refs/s5", "refs/s6">>

PhysicalName == "refs/p"

GoneName == "refs/gone"

ChainBases == {"physical", "dangling", "cyclic"}

\* _symref after the files are read: s1 names the base, s(i+1) names s(i).
ChainTable(k, base) ==
  [n \in {SymNames[i] : i \in 1..k} |->
     LET i == CHOOSE j \in 1..k : SymNames[j] = n
     IN IF i > 1 THEN SymNames[i - 1]
        ELSE CASE base = "physical" -> PhysicalName
               [] base = "dangling" -> GoneName
               [] OTHER -> SymNames[k]]

\* _phyref after the files are read: the physical ref, and for a symbolic
\* ref that packed-refs lists as well, the id of its packed line.
ChainPhysical(packed) ==
  [n \in {PhysicalName} \cup packed |-> IF n = PhysicalName THEN "c1" ELSE "c2"]

\* Before _LoadAll.
Unscanned == [phy |-> EmptyMap, attempts |-> -1]

\* _LoadAll on these files, then get and symref of every name.
LoadChain ==
  /\ sr_out = Unscanned
  /\ \E order \in Orders(DOMAIN sr_sym) :
       /\ sr_order' = order
       /\ sr_out' = Resolve(order, sr_sym, sr_phy, 0)
  /\ UNCHANGED <<sr_sym, sr_phy>>

\* Another repository is opened.
NextChain ==
  /\ sr_out # Unscanned
  /\ \E k \in 1..MaxChain, base \in ChainBases, packed \in SUBSET {SymNames[1]} :
       /\ sr_sym' = ChainTable(k, base)
       /\ sr_phy' = ChainPhysical(packed)
  /\ sr_order' = <<>>
  /\ sr_out' = Unscanned

SrInit ==
  /\ \E k \in 1..MaxChain, base \in ChainBases, packed \in SUBSET {SymNames[1]} :
       /\ sr_sym = ChainTable(k, base)
       /\ sr_phy = ChainPhysical(packed)
  /\ sr_order = <<>>
  /\ sr_out = Unscanned

SrIdle ==
  /\ sr_sym = EmptyMap
  /\ sr_phy = EmptyMap
  /\ sr_order = <<>>
  /\ sr_out = Unscanned


(***************************************************************************)
(* Config Store: sections and branches                                     *)
(***************************************************************************)
\* Keys of a branch section and a key without a subsection.
BranchName == "b"

RemoteKey == <<"branch", BranchName, "remote">>

MergeKey == <<"branch", BranchName, "merge">>

SxNames == {RemoteKey, MergeKey, <<"user", "name">>}

SxSections == {"branch", "user"}

\* The subsections asked for: '' and the branch name.
SxSubsections == {<<>>, <<BranchName>>}

MaxSxWrites == 2

\* 'p = name.split('.')': the section of a key, and its subsection, ''
\* for a key of two segments
SectionOf(k) == k[1]

SubsectionOf(k) == IF Len(k) = 2 THEN <<>> ELSE SubSeq(k, 2, Len(k) - 1)

\* The dictionary the _sections property builds from the keys of d.
Sections(d) ==
  [sec \in {SectionOf(k) : k \in DOMAIN d} |->
     {SubsectionOf(k) : k \in {x \in DOMAIN d : SectionOf(x) = sec}}]

NoSections == [set |-> FALSE, d |-> EmptyMap]

\* The _sections property: _section_dict when it is set, else built now
SectionsNow == IF sx_sections.set THEN sx_sections.d ELSE Sections(sx_cache)

\* _section_dict after the property: it is assigned inside the loop over
\* the keys, so it stays None for a store without keys.
SectionsKept ==
  IF sx_sections.set \/ DOMAIN sx_cache = {}
    THEN sx_sections
    ELSE [set |-> TRUE, d |-> Sections(sx_cache)]

HasSectionIn(secs, section, sub) == section \in DOMAIN secs /\ sub \in secs[section]

SxResult(op, name, sub, has, subs, val) ==
  [op |-> op, name |-> name, sub |-> sub, has |-> has, subs |-> subs, val |-> val]

\* GitConfig.HasSection
HasSection(section, sub) ==
  /\ sx_sections' = SectionsKept
  /\ sx_last' = SxResult("HasSection", <<section>>, sub,
                         HasSectionIn(SectionsNow, section, sub), {}, NoResult)
  /\ UNCHANGED <<sx_file, sx_cache, sx_writes>>

\* GitConfig.GetSubSections
GetSubSections(section) ==
  /\ sx_sections' = SectionsKept
  /\ sx_last' = SxResult("GetSubSections", <<section>>, <<>>, FALSE,
                         IF section \in DOMAIN SectionsNow THEN SectionsNow[section] ELSE {},
                         NoResult)
  /\ UNCHANGED <<sx_file, sx_cache, sx_writes>>

\* GitConfig.GetString on the loaded view
SxGetString(name) ==
  /\ sx_last' = SxResult("GetString", name, <<>>, FALSE, {}, GetStringIn(sx_cache, name, FALSE))
  /\ UNCHANGED <<sx_file, sx_cache, sx_sections, sx_writes>>

\* GitConfig.SetString on the loaded view
SxSetString(name, value) ==
  \E oks \in [1..2 -> BOOLEAN] :
    LET r == SetStringIn(sx_cache, sx_file, name, value, oks)
    IN /\ sx_writes < MaxSxWrites
       /\ \A i \in 1..2 : i > r.ran => oks[i]
       /\ sx_cache' = r.dict
       /\ sx_file' = r.file
       /\ sx_writes' = sx_writes + 1
       /\ sx_last' = SxResult("SetString", name, <<>>, FALSE, {}, NoResult)
       /\ UNCHANGED sx_sections

\* Branch.Save of a branch with a remote and a merge target: through
\* SetString when HasSection('branch', name), else the section is appended
\* to the backing file as text, which git reads as one more value of each
\* key; [dict, file]
BranchSave(remote, merge, ok1, ok2) ==
  IF HasSectionIn(SectionsNow, "branch", <<BranchName>>)
    THEN LET r1 == SetStringIn(sx_cache, sx_file, RemoteKey,
                               [kind |-> "str", val |-> <<remote>>], <<ok1, TRUE>>)
             r2 == SetStringIn(r1.dict, r1.file, MergeKey,
                               [kind |-> "str", val |-> <<merge>>], <<ok2, TRUE>>)
         IN [dict |-> r2.dict, file |-> r2.file]
    ELSE [dict |-> sx_cache,
          file |-> GitAdd(GitAdd(sx_file, RemoteKey, remote), MergeKey, merge)]

\* Branch.Save
Save_Branch ==
  \E remote \in CfgValues, merge \in CfgValues, ok1, ok2 \in BOOLEAN :
    LET r == BranchSave(remote, merge, ok1, ok2)
    IN /\ sx_writes < MaxSxWrites
       /\ sx_cache' = r.dict
       /\ sx_file' = r.file
       /\ sx_sections' = SectionsKept
       /\ sx_writes' = sx_writes + 1
       /\ sx_last' = SxResult("Save", <<remote, merge>>, <<>>, FALSE, {}, NoResult)

\* A store that has loaded the view of its backing file.
SxInit ==
  /\ sx_file \in UNION {[S -> {<<"v">>}] : S \in SUBSET SxNames}
  /\ sx_cache = sx_file
  /\ sx_sections = NoSections
  /\ sx_writes = 0
  /\ sx_last = SxResult("init", <<>>, <<>>, FALSE, {}, NoResult)

SxIdle ==
  /\ sx_file = EmptyMap
  /\ sx_cache = EmptyMap
  /\ sx_sections = NoSections
  /\ sx_writes = 0
  /\ sx_last = SxResult("idle", <<>>, <<>>, FALSE, {}, NoResult)


(***************************************************************************)
(* Manifest Engine: include resolution                                     *)
(***************************************************************************)
\* The manifest files of the include root, the root document first.
XmlFiles == <<"default.xml", "extra.xml">>

\* A child of the <manifest> element: an include of a file of the root, of
\* a file that does not exist, or any other element.
XmlItems ==
  {[include |-> TRUE, name |-> f] : f \in {XmlFiles[i] : i \in DOMAIN XmlFiles} \cup {"gone.xml"}}
    \cup {[include |-> FALSE, name |-> "project"]}

MaxItems == 2

\* The frames the interpreter allows the recursion of _ParseManifestXml.
MaxDepth == 3

XmlContents == UNION {[1..n -> XmlItems] : n \in 0..MaxItems}

\* How a call of _ParseManifestXml ends: with the node list, with a
\* ManifestParseError, or with the RuntimeError of a recursion too deep.
Flattened(nodes) == [kind |-> "nodes", nodes |-> nodes]

ParseError == [kind |-> "ManifestParseError", nodes |-> <<>>]

RecursionError == [kind |-> "RuntimeError", nodes |-> <<>>]

\* _ParseManifestXml(path, include_root) at the given depth of recursion:
\* the loop over the children from the i-th on; a RuntimeError of the
\* recursive call is raised again as it is, a ManifestParseError is wrapped
\* in a new one.
RECURSIVE ParseManifestXml(_, _, _)
RECURSIVE XmlItemsFrom(_, _, _, _, _)
XmlItemsFrom(files, items, i, nodes, depth) ==
  IF i > Len(items) THEN Flattened(nodes)
  ELSE IF ~items[i].include
    THEN XmlItemsFrom(files, items, i + 1, Append(nodes, items[i].name), depth)
  ELSE IF items[i].name \notin DOMAIN files THEN ParseError
  ELSE LET r == ParseManifestXml(files, items[i].name, depth + 1)
       IN IF r.kind # "nodes" THEN r
          ELSE XmlItemsFrom(files, items, i + 1, nodes \o r.nodes, depth)

ParseManifestXml(files, path, depth) ==
  IF depth > MaxDepth THEN RecursionError
  ELSE XmlItemsFrom(files, files[path], 1, <<>>, depth)

NotParsed == [kind |-> "none", nodes |-> <<>>]

\* _Load reads the root document.
ParseRoot ==
  /\ ic_out = NotParsed
  /\ ic_out' = ParseManifestXml(ic_files, XmlFiles[1], 1)
  /\ UNCHANGED ic_files

\* The engine is unloaded.
UnloadXml ==
  /\ ic_out # NotParsed
  /\ ic_out' = NotParsed
  /\ UNCHANGED ic_files

IcInit ==
  /\ ic_files \in [{XmlFiles[i] : i \in DOMAIN XmlFiles} -> XmlContents]
  /\ ic_out = NotParsed

IcIdle ==
  /\ ic_files = EmptyMap
  /\ ic_out = NotParsed


(***************************************************************************)
(* Manifest Engine: Override                                               *)
(***************************************************************************)
\* The manifest file of the workspace and the file Override is given.
ManifestXml == "manifest.xml"

OtherXml == "other.xml"

\* The documents of the two files: after the remote o and a default naming
\* it, projects a and b, in any number and order.
OvPreamble == <<RemoteO, [Element("default") EXCEPT !.remote = <<"o">>, !.revision = "main"]>>

OvNodes == {[Element("project") EXCEPT !.name = <<"a">>],
            [Element("project") EXCEPT !.name = <<"b">>]}

OvDocs == {OvPreamble \o tail : tail \in Docs(OvNodes)}

\* How _Load ends when _loaded is false, given what _ParseManifest made of
\* the nodes (parsed) and what the two _AddMetaProjectMirror calls made of
\* that (mirrored): [engine, loaded, branch, outcome]. A missing include
\* raises in _ParseManifestXml, before anything is parsed; an error of
\* _ParseManifest unloads; an error of _AddMetaProjectMirror leaves what was
\* parsed.
LoadParsed(e, parsed, mirrored, includeMissing) ==
  IF includeMissing
    THEN [engine |-> e, loaded |-> FALSE, branch |-> "b",
          outcome |-> "ManifestParseError"]
    ELSE IF parsed.err # ""
      THEN [engine |-> UnloadedEngine, loaded |-> FALSE, branch |-> "None",
            outcome |-> "ManifestParseError"]
      ELSE [engine |-> [mirrored EXCEPT !.err = ""], loaded |-> mirrored.err = "",
            branch |-> "b",
            outcome |-> IF mirrored.err = "" THEN "ok" ELSE "ManifestParseError"]

\* 'if self.IsMirror:' and the two _AddMetaProjectMirror calls
LoadMirrored(e, parsed, includeMissing, mirror) ==
  LoadParsed(e, parsed,
             IF mirror = <<>> THEN parsed
             ELSE AddMetaProjectMirror(AddMetaProjectMirror(parsed, mirror[1]), mirror[2]),
             includeMissing)

\* _Load of the document doc by the engine e when _loaded is false
LoadOf(e, doc, includeMissing, mirror) ==
  LoadMirrored(e, ParseManifest(e, doc), includeMissing, mirror)

\* Whether the file of that name includes a file that does not exist.
IncludeMissingIn(file) == file = OtherXml /\ ov_includeMissing

\* XmlManifest.Override(name): a name that is no file raises at once; else
\* manifestFile is set to the file, the engine is unloaded and loaded, and
\* the finally clause sets manifestFile back.
Override(name) ==
  IF name \notin DOMAIN ov_docs
    THEN /\ ov_last' = [op |-> "Override", outcome |-> "notFound"]
         /\ UNCHANGED <<ov_manifestFile, ov_docs, ov_includeMissing, ov_mirror,
                        ov_engine, ov_loaded, ov_branch>>
    ELSE \E old \in {ov_manifestFile},
            r \in {LoadOf(UnloadedEngine, ov_docs[name], IncludeMissingIn(name), ov_mirror)} :
           /\ ov_manifestFile' = old
           /\ ov_engine' = r.engine
           /\ ov_loaded' = r.loaded
           /\ ov_branch' = r.branch
           /\ ov_last' = [op |-> "Override", outcome |-> r.outcome]
           /\ UNCHANGED <<ov_docs, ov_includeMissing, ov_mirror>>

\* A lazy property (projects, paths, remotes, ...): _Load, which does
\* nothing on a loaded engine
Query ==
  /\ IF ov_loaded
       THEN /\ ov_last' = [op |-> "query", outcome |-> "ok"]
            /\ UNCHANGED <<ov_engine, ov_loaded, ov_branch>>
       ELSE \E r \in {LoadOf(ov_engine, ov_docs[ov_manifestFile],
                              IncludeMissingIn(ov_manifestFile), ov_mirror)} :
              /\ ov_engine' = r.engine
              /\ ov_loaded' = r.loaded
              /\ ov_branch' = r.branch
              /\ ov_last' = [op |-> "query", outcome |-> r.outcome]
  /\ UNCHANGED <<ov_manifestFile, ov_docs, ov_includeMissing, ov_mirror>>

\* _Unload
OvUnload ==
  /\ ov_engine' = UnloadedEngine
  /\ ov_loaded' = FALSE
  /\ ov_branch' = "None"
  /\ ov_last' = [op |-> "unload", outcome |-> "ok"]
  /\ UNCHANGED <<ov_manifestFile, ov_docs, ov_includeMissing, ov_mirror>>

\* XmlManifest.__init__ with the two files in the manifest directory
OvInit ==
  /\ ov_manifestFile = ManifestXml
  /\ ov_docs \in [{ManifestXml, OtherXml} -> OvDocs]
  /\ ov_includeMissing \in BOOLEAN
  /\ ov_mirror \in MirrorConfigs
  /\ ov_engine = UnloadedEngine
  /\ ov_loaded = FALSE
  /\ ov_branch = "None"
  /\ ov_last = [op |-> "init", outcome |-> "ok"]

OvIdle ==
  /\ ov_manifestFile = ManifestXml
  /\ ov_docs = EmptyMap
  /\ ov_includeMissing = FALSE
  /\ ov_mirror = <<>>
  /\ ov_engine = UnloadedEngine
  /\ ov_loaded = FALSE
  /\ ov_branch = "None"
  /\ ov_last = [op |-> "idle", outcome |-> "ok"]

GcIdle == ClIdle /\ CoIdle /\ EnIdle /\ TlIdle /\ UiIdle /\ PdIdle /\ SvIdle /\ MnIdle /\ SrIdle /\ SxIdle /\ IcIdle /\ OvIdle

(***************************************************************************)
(* Specifications                                                          *)
(***************************************************************************)
InitRefSpec == RsInit /\ GrIdle /\ CfIdle /\ SsIdle /\ MfIdle /\ GcIdle

NextRefSpec == RefSpecQuery /\ UNCHANGED <<grVars, cfVars, ssVars, mfVars, gcVars>>

SpecRefSpec == InitRefSpec /\ [][NextRefSpec]_vars

InitRefs == GrInit /\ RsIdle /\ CfIdle /\ SsIdle /\ MfIdle /\ GcIdle

NextRefs ==
  \/ (\E name \in RefNames : Get(name)) /\ UNCHANGED <<rsVars, cfVars, ssVars, mfVars, gcVars>>
  \/ (\E name \in RefNames : Symref(name)) /\ UNCHANGED <<rsVars, cfVars, ssVars, mfVars, gcVars>>
  \/ (\E name \in RefNames : Deleted(name)) /\ UNCHANGED <<rsVars, cfVars, ssVars, mfVars, gcVars>>
  \/ WriteLoose /\ UNCHANGED <<rsVars, cfVars, ssVars, mfVars, gcVars>>
  \/ RemoveLoose /\ UNCHANGED <<rsVars, cfVars, ssVars, mfVars, gcVars>>
  \/ WritePacked /\ UNCHANGED <<rsVars, cfVars, ssVars, mfVars, gcVars>>

SpecRefs == InitRefs /\ [][NextRefs]_vars

InitConfig == CfInit /\ RsIdle /\ GrIdle /\ SsIdle /\ MfIdle /\ GcIdle

NextConfig ==
  \/ (\E name \in CfgNames, all \in BOOLEAN : GetString(name, all))
       /\ UNCHANGED <<rsVars, grVars, ssVars, mfVars, gcVars>>
  \/ (\E name \in CfgNames, value \in SetValues : SetString(name, value))
       /\ UNCHANGED <<rsVars, grVars, ssVars, mfVars, gcVars>>
  \/ (\E name \in CfgNames : Has(name)) /\ UNCHANGED <<rsVars, grVars, ssVars, mfVars, gcVars>>
  \/ NewProcess /\ UNCHANGED <<rsVars, grVars, ssVars, mfVars, gcVars>>
  \/ ExternalEdit /\ UNCHANGED <<rsVars, grVars, ssVars, mfVars, gcVars>>
  \/ CorruptJson /\ UNCHANGED <<rsVars, grVars, ssVars, mfVars, gcVars>>
  \/ CfgTick /\ UNCHANGED <<rsVars, grVars, ssVars, mfVars, gcVars>>

SpecConfig == InitConfig /\ [][NextConfig]_vars

InitSshSpec == SsInit /\ RsIdle /\ GrIdle /\ CfIdle /\ MfIdle /\ GcIdle

NextSsh ==
  \/ InitSsh /\ UNCHANGED <<rsVars, grVars, cfVars, mfVars, gcVars>>
  \/ (\E w \in Workers, a \in AcquireArgs : Call(w, a)) /\ UNCHANGED <<rsVars, grVars, cfVars, mfVars, gcVars>>
  \/ (\E w \in Workers : AcquireLock(w)) /\ UNCHANGED <<rsVars, grVars, cfVars, mfVars, gcVars>>
  \/ (\E w \in Workers : AcquireNoLock(w)) /\ UNCHANGED <<rsVars, grVars, cfVars, mfVars, gcVars>>
  \/ (\E w \in Workers : CheckKey(w)) /\ UNCHANGED <<rsVars, grVars, cfVars, mfVars, gcVars>>
  \/ (\E w \in Workers : Probe(w)) /\ UNCHANGED <<rsVars, grVars, cfVars, mfVars, gcVars>>
  \/ (\E w \in Workers : Spawn(w)) /\ UNCHANGED <<rsVars, grVars, cfVars, mfVars, gcVars>>
  \/ (\E w \in Workers : Poll(w)) /\ UNCHANGED <<rsVars, grVars, cfVars, mfVars, gcVars>>
  \/ (\E w \in Workers : AddKey(w)) /\ UNCHANGED <<rsVars, grVars, cfVars, mfVars, gcVars>>
  \/ CloseTerminateClients /\ UNCHANGED <<rsVars, grVars, cfVars, mfVars, gcVars>>
  \/ CloseKill /\ UNCHANGED <<rsVars, grVars, cfVars, mfVars, gcVars>>
  \/ CloseClearProcesses /\ UNCHANGED <<rsVars, grVars, cfVars, mfVars, gcVars>>
  \/ CloseClearKeys /\ UNCHANGED <<rsVars, grVars, cfVars, mfVars, gcVars>>
  \/ CloseDropLock /\ UNCHANGED <<rsVars, grVars, cfVars, mfVars, gcVars>>

SpecSsh == InitSshSpec /\ [][NextSsh]_vars

\* Every statement of a call of _open_ssh that can run does run (the probe,
\* the spawn and the liveness check terminate), and a worker that waits in
\* acquire() is not passed over for ever once the lock is free again and again.
SshFairness ==
  \A w \in Workers :
    /\ SF_ssVars(AcquireLock(w))
    /\ WF_ssVars(AcquireNoLock(w))
    /\ WF_ssVars(CheckKey(w))
    /\ WF_ssVars(Probe(w))
    /\ WF_ssVars(Spawn(w))
    /\ WF_ssVars(Poll(w))
    /\ WF_ssVars(AddKey(w))

SpecSshFair == SpecSsh /\ SshFairness

InitManifest == MfInitOn(Nodes) /\ RsIdle /\ GrIdle /\ CfIdle /\ SsIdle /\ GcIdle

NextManifest ==
  \/ Load /\ UNCHANGED <<rsVars, grVars, cfVars, ssVars, gcVars>>
  \/ Unload /\ UNCHANGED <<rsVars, grVars, cfVars, ssVars, gcVars>>
  \/ RemoveIncluded /\ UNCHANGED <<rsVars, grVars, cfVars, ssVars, gcVars>>

SpecManifest == InitManifest /\ [][NextManifest]_vars

InitRemotes == MfInitOn(RemoteNodes) /\ RsIdle /\ GrIdle /\ CfIdle /\ SsIdle /\ GcIdle

SpecRemotes == InitRemotes /\ [][NextManifest]_vars

InitGroups == MfInitDocs(GroupDocs) /\ RsIdle /\ GrIdle /\ CfIdle /\ SsIdle /\ GcIdle

SpecGroups == InitGroups /\ [][NextManifest]_vars

InitResolution ==
  MfInitDocs(Docs(ResolutionNodes)) /\ RsIdle /\ GrIdle /\ CfIdle /\ SsIdle /\ GcIdle

SpecResolution == InitResolution /\ [][NextManifest]_vars

InitHooks ==
  MfInitDocs(HooksDocs) /\ RsIdle /\ GrIdle /\ CfIdle /\ SsIdle /\ GcIdle

SpecHooks == InitHooks /\ [][NextManifest]_vars

InitRemoves == MfInitDocs(RemoveDocs) /\ RsIdle /\ GrIdle /\ CfIdle /\ SsIdle /\ GcIdle

SpecRemoves == InitRemoves /\ [][NextManifest]_vars

InitClients == ClInit /\ CoIdle /\ EnIdle /\ TlIdle /\ UiIdle /\ PdIdle /\ SvIdle /\ MnIdle /\ SrIdle /\ SxIdle /\ IcIdle /\ OvIdle /\ RsIdle /\ GrIdle /\ CfIdle /\ SsIdle /\ MfIdle

NextClients ==
  \/ (\E w \in Workers : SpawnClient(w)) /\ UNCHANGED <<rsVars, grVars, cfVars, ssVars, mfVars, coVars, enVars, tlVars, uiVars, pdVars, svVars, mnVars, srVars, sxVars, icVars, ovVars>>
  \/ (\E w \in Workers : AddSshClient(w)) /\ UNCHANGED <<rsVars, grVars, cfVars, ssVars, mfVars, coVars, enVars, tlVars, uiVars, pdVars, svVars, mnVars, srVars, sxVars, icVars, ovVars>>
  \/ (\E w \in Workers : Wait(w)) /\ UNCHANGED <<rsVars, grVars, cfVars, ssVars, mfVars, coVars, enVars, tlVars, uiVars, pdVars, svVars, mnVars, srVars, sxVars, icVars, ovVars>>
  \/ TerminateSshClients /\ UNCHANGED <<rsVars, grVars, cfVars, ssVars, mfVars, coVars, enVars, tlVars, uiVars, pdVars, svVars, mnVars, srVars, sxVars, icVars, ovVars>>
  \/ KillClient /\ UNCHANGED <<rsVars, grVars, cfVars, ssVars, mfVars, coVars, enVars, tlVars, uiVars, pdVars, svVars, mnVars, srVars, sxVars, icVars, ovVars>>
  \/ ForgetClients /\ UNCHANGED <<rsVars, grVars, cfVars, ssVars, mfVars, coVars, enVars, tlVars, uiVars, pdVars, svVars, mnVars, srVars, sxVars, icVars, ovVars>>

SpecClients == InitClients /\ [][NextClients]_vars

InitCapture == CoInit /\ ClIdle /\ EnIdle /\ TlIdle /\ UiIdle /\ PdIdle /\ SvIdle /\ MnIdle /\ SrIdle /\ SxIdle /\ IcIdle /\ OvIdle /\ RsIdle /\ GrIdle /\ CfIdle /\ SsIdle /\ MfIdle

NextCapture ==
  \/ (\E s \in Streams, n \in 1..MaxChunk : ReadChunk(s, n))
       /\ UNCHANGED <<rsVars, grVars, cfVars, ssVars, mfVars, clVars, enVars, tlVars, uiVars, pdVars, svVars, mnVars, srVars, sxVars, icVars, ovVars>>
  \/ (\E s \in Streams : ReadEof(s))
       /\ UNCHANGED <<rsVars, grVars, cfVars, ssVars, mfVars, clVars, enVars, tlVars, uiVars, pdVars, svVars, mnVars, srVars, sxVars, icVars, ovVars>>
  \/ WaitChild /\ UNCHANGED <<rsVars, grVars, cfVars, ssVars, mfVars, clVars, enVars, tlVars, uiVars, pdVars, svVars, mnVars, srVars, sxVars, icVars, ovVars>>

SpecCapture == InitCapture /\ [][NextCapture]_vars

InitEnv == EnInit /\ ClIdle /\ CoIdle /\ TlIdle /\ UiIdle /\ PdIdle /\ SvIdle /\ MnIdle /\ SrIdle /\ SxIdle /\ IcIdle /\ OvIdle /\ RsIdle /\ GrIdle /\ CfIdle /\ SsIdle /\ MfIdle

NextEnv ==
  \/ SpawnGit /\ UNCHANGED <<rsVars, grVars, cfVars, ssVars, mfVars, clVars, coVars, tlVars, uiVars, pdVars, svVars, mnVars, srVars, sxVars, icVars, ovVars>>
  \/ NextCall /\ UNCHANGED <<rsVars, grVars, cfVars, ssVars, mfVars, clVars, coVars, tlVars, uiVars, pdVars, svVars, mnVars, srVars, sxVars, icVars, ovVars>>

SpecEnv == InitEnv /\ [][NextEnv]_vars

InitToLocal ==
  TlInit /\ ClIdle /\ CoIdle /\ EnIdle /\ UiIdle /\ PdIdle /\ SvIdle /\ MnIdle /\ SrIdle /\ SxIdle /\ IcIdle /\ OvIdle /\ RsIdle /\ GrIdle /\ CfIdle /\ SsIdle /\ MfIdle

NextToLocal ==
  \/ ToLocalCall
       /\ UNCHANGED <<rsVars, grVars, cfVars, ssVars, mfVars, clVars, coVars, enVars, uiVars, pdVars, svVars, mnVars, srVars, sxVars, icVars, ovVars>>
  \/ LocalMerge
       /\ UNCHANGED <<rsVars, grVars, cfVars, ssVars, mfVars, clVars, coVars, enVars, uiVars, pdVars, svVars, mnVars, srVars, sxVars, icVars, ovVars>>

SpecToLocal == InitToLocal /\ [][NextToLocal]_vars

InitInsteadOf ==
  UiInit /\ ClIdle /\ CoIdle /\ EnIdle /\ TlIdle /\ PdIdle /\ SvIdle /\ MnIdle /\ SrIdle /\ SxIdle /\ IcIdle /\ OvIdle /\ RsIdle /\ GrIdle /\ CfIdle /\ SsIdle
    /\ MfIdle

NextInsteadOf ==
  \/ UrlInsteadOf
       /\ UNCHANGED <<rsVars, grVars, cfVars, ssVars, mfVars, clVars, coVars, enVars, tlVars, pdVars, svVars, mnVars, srVars, sxVars, icVars, ovVars>>
  \/ InsteadOf
       /\ UNCHANGED <<rsVars, grVars, cfVars, ssVars, mfVars, clVars, coVars, enVars, tlVars, pdVars, svVars, mnVars, srVars, sxVars, icVars, ovVars>>

SpecInsteadOf == InitInsteadOf /\ [][NextInsteadOf]_vars

InitDiff ==
  PdInit /\ ClIdle /\ CoIdle /\ EnIdle /\ TlIdle /\ UiIdle /\ SvIdle /\ MnIdle
    /\ SrIdle /\ SxIdle /\ IcIdle /\ OvIdle /\ RsIdle /\ GrIdle /\ CfIdle /\ SsIdle /\ MfIdle

NextDiff ==
  \/ DiffAB /\ UNCHANGED <<rsVars, grVars, cfVars, ssVars, mfVars, clVars, coVars, enVars, tlVars, uiVars, svVars, mnVars, srVars, sxVars, icVars, ovVars>>
  \/ DiffBA /\ UNCHANGED <<rsVars, grVars, cfVars, ssVars, mfVars, clVars, coVars, enVars, tlVars, uiVars, svVars, mnVars, srVars, sxVars, icVars, ovVars>>

SpecDiff == InitDiff /\ [][NextDiff]_vars

InitSave ==
  SvInit /\ ClIdle /\ CoIdle /\ EnIdle /\ TlIdle /\ UiIdle /\ PdIdle /\ MnIdle
    /\ SrIdle /\ SxIdle /\ IcIdle /\ OvIdle /\ RsIdle /\ GrIdle /\ CfIdle /\ SsIdle /\ MfIdle

NextSave ==
  \/ SvLoad /\ UNCHANGED <<rsVars, grVars, cfVars, ssVars, mfVars, clVars, coVars, enVars, tlVars, uiVars, pdVars, mnVars, srVars, sxVars, icVars, ovVars>>
  \/ SvSave /\ UNCHANGED <<rsVars, grVars, cfVars, ssVars, mfVars, clVars, coVars, enVars, tlVars, uiVars, pdVars, mnVars, srVars, sxVars, icVars, ovVars>>
  \/ SvLoadSaved /\ UNCHANGED <<rsVars, grVars, cfVars, ssVars, mfVars, clVars, coVars, enVars, tlVars, uiVars, pdVars, mnVars, srVars, sxVars, icVars, ovVars>>

SpecSave == InitSave /\ [][NextSave]_vars


InitMain ==
  SsInit /\ MnInit /\ RsIdle /\ GrIdle /\ CfIdle /\ MfIdle
    /\ ClIdle /\ CoIdle /\ EnIdle /\ TlIdle /\ UiIdle /\ PdIdle /\ SvIdle /\ SrIdle
    /\ SxIdle /\ IcIdle /\ OvIdle

\* The variables no step of _Main and of its workers changes.
mainRest ==
  <<rsVars, grVars, cfVars, mfVars, clVars, coVars, enVars, tlVars, uiVars, pdVars, svVars,
    srVars, sxVars, icVars, ovVars>>

NextMain ==
  \/ InitSsh /\ UNCHANGED <<mainRest, mnVars>>
  \/ (\E w \in Workers, a \in AcquireArgs : Call(w, a) /\ mn_outcome = "none") /\ UNCHANGED <<mainRest, mnVars>>
  \/ (\E w \in Workers : AcquireLock(w)) /\ UNCHANGED <<mainRest, mnVars>>
  \/ (\E w \in Workers : AcquireNoLock(w)) /\ UNCHANGED <<mainRest, mnVars>>
  \/ (\E w \in Workers : CheckKey(w)) /\ UNCHANGED <<mainRest, mnVars>>
  \/ (\E w \in Workers : Probe(w)) /\ UNCHANGED <<mainRest, mnVars>>
  \/ (\E w \in Workers : Spawn(w)) /\ UNCHANGED <<mainRest, mnVars>>
  \/ (\E w \in Workers : Poll(w)) /\ UNCHANGED <<mainRest, mnVars>>
  \/ (\E w \in Workers : AddKey(w)) /\ UNCHANGED <<mainRest, mnVars>>
  \/ (\E o \in Outcomes : MainRun(o)) /\ UNCHANGED <<mainRest, ssVars>>
  \/ CloseTerminateClients /\ mn_outcome # "none" /\ UNCHANGED <<mainRest, mnVars>>
  \/ CloseKill /\ UNCHANGED <<mainRest, mnVars>>
  \/ CloseClearProcesses /\ UNCHANGED <<mainRest, mnVars>>
  \/ CloseClearKeys /\ UNCHANGED <<mainRest, mnVars>>
  \/ CloseDropLock /\ UNCHANGED <<mainRest, mnVars>>
  \/ MainReport /\ UNCHANGED <<mainRest, ssVars>>

SpecMain == InitMain /\ [][NextMain]_vars


InitChain ==
  SrInit /\ ClIdle /\ CoIdle /\ EnIdle /\ TlIdle /\ UiIdle /\ PdIdle /\ SvIdle /\ MnIdle
    /\ SxIdle /\ IcIdle /\ OvIdle /\ RsIdle /\ GrIdle /\ CfIdle /\ SsIdle /\ MfIdle

NextChains ==
  \/ LoadChain /\ UNCHANGED <<rsVars, grVars, cfVars, ssVars, mfVars, clVars, coVars, enVars, tlVars, uiVars, pdVars, svVars, mnVars, sxVars, icVars, ovVars>>
  \/ NextChain /\ UNCHANGED <<rsVars, grVars, cfVars, ssVars, mfVars, clVars, coVars, enVars, tlVars, uiVars, pdVars, svVars, mnVars, sxVars, icVars, ovVars>>

SpecChain == InitChain /\ [][NextChains]_vars


InitSections ==
  SxInit /\ ClIdle /\ CoIdle /\ EnIdle /\ TlIdle /\ UiIdle /\ PdIdle /\ SvIdle /\ MnIdle
    /\ SrIdle /\ IcIdle /\ OvIdle /\ RsIdle /\ GrIdle /\ CfIdle /\ SsIdle /\ MfIdle

NextSections ==
  \/ (\E sec \in SxSections, sub \in SxSubsections : HasSection(sec, sub)) /\ UNCHANGED <<rsVars, grVars, cfVars, ssVars, mfVars, clVars, coVars, enVars, tlVars, uiVars, pdVars, svVars, mnVars, srVars, icVars, ovVars>>
  \/ (\E sec \in SxSections : GetSubSections(sec)) /\ UNCHANGED <<rsVars, grVars, cfVars, ssVars, mfVars, clVars, coVars, enVars, tlVars, uiVars, pdVars, svVars, mnVars, srVars, icVars, ovVars>>
  \/ (\E name \in SxNames : SxGetString(name)) /\ UNCHANGED <<rsVars, grVars, cfVars, ssVars, mfVars, clVars, coVars, enVars, tlVars, uiVars, pdVars, svVars, mnVars, srVars, icVars, ovVars>>
  \/ (\E name \in SxNames, value \in SetValues : SxSetString(name, value)) /\ UNCHANGED <<rsVars, grVars, cfVars, ssVars, mfVars, clVars, coVars, enVars, tlVars, uiVars, pdVars, svVars, mnVars, srVars, icVars, ovVars>>
  \/ Save_Branch /\ UNCHANGED <<rsVars, grVars, cfVars, ssVars, mfVars, clVars, coVars, enVars, tlVars, uiVars, pdVars, svVars, mnVars, srVars, icVars, ovVars>>

SpecSections == InitSections /\ [][NextSections]_vars


InitIncludes ==
  IcInit /\ ClIdle /\ CoIdle /\ EnIdle /\ TlIdle /\ UiIdle /\ PdIdle /\ SvIdle /\ MnIdle
    /\ SrIdle /\ SxIdle /\ OvIdle /\ RsIdle /\ GrIdle /\ CfIdle /\ SsIdle /\ MfIdle

NextIncludes ==
  \/ ParseRoot /\ UNCHANGED <<rsVars, grVars, cfVars, ssVars, mfVars, clVars, coVars, enVars, tlVars, uiVars, pdVars, svVars, mnVars, srVars, sxVars, ovVars>>
  \/ UnloadXml /\ UNCHANGED <<rsVars, grVars, cfVars, ssVars, mfVars, clVars, coVars, enVars, tlVars, uiVars, pdVars, svVars, mnVars, srVars, sxVars, ovVars>>

SpecIncludes == InitIncludes /\ [][NextIncludes]_vars


InitOverride ==
  OvInit /\ ClIdle /\ CoIdle /\ EnIdle /\ TlIdle /\ UiIdle /\ PdIdle /\ SvIdle /\ MnIdle
    /\ SrIdle /\ SxIdle /\ IcIdle /\ RsIdle /\ GrIdle /\ CfIdle /\ SsIdle /\ MfIdle

NextOverride ==
  \/ (\E name \in {OtherXml, "gone.xml"} : Override(name)) /\ UNCHANGED <<rsVars, grVars, cfVars, ssVars, mfVars, clVars, coVars, enVars, tlVars, uiVars, pdVars, svVars, mnVars, srVars, sxVars, icVars>>
  \/ Query /\ UNCHANGED <<rsVars, grVars, cfVars, ssVars, mfVars, clVars, coVars, enVars, tlVars, uiVars, pdVars, svVars, mnVars, srVars, sxVars, icVars>>
  \/ OvUnload /\ UNCHANGED <<rsVars, grVars, cfVars, ssVars, mfVars, clVars, coVars, enVars, tlVars, uiVars, pdVars, svVars, mnVars, srVars, sxVars, icVars>>

SpecOverride == InitOverride /\ [][NextOverride]_vars

(***************************************************************************)
(* Claims                                                                  *)
(***************************************************************************)
\* The recorded session processes that serve the key k.
Recorded(k) == {i \in DOMAIN ss_procs : ss_procs[i] = k}

\* C1: under any interleaving of concurrent _open_ssh calls, teardown not
\* having begun, at most one session process is recorded per key, and no
\* worker is probing for or starting a session for a key that is in the
\* known-live set.
C1_OneSessionPerKey ==
  ss_main = "run" =>
    /\ \A a \in AcquireArgs : Cardinality(Recorded(SshKey(a))) <= 1
    /\ \A w \in Workers :
         ss_pc[w] \in {"probe", "spawn", "sleep", "add"}
           => SshKey(ss_arg[w]) \notin ss_keys

\* Both workers asked for the same key: one started and recorded the
\* session, the other found the key known.
C1_Witness ==
  /\ ss_main = "run"
  /\ ss_arg["w1"] = ss_arg["w2"]
  /\ ss_exit["w1"] = "spawned"
  /\ ss_exit["w2"] = "known"
  /\ Cardinality(Recorded(SshKey(ss_arg["w1"]))) = 1

\* The values the defaults store holds for the key of the last call.
ParentValues == IF cf_hasParent THEN Values(cf_parent, cf_last.key) ELSE <<>>

\* C2 as stated: after SetString(key, v) GetString(key) returns v; after
\* SetString(key, [v1..vn]), n >= 2, GetString(key, all values) returns
\* exactly [v1..vn]; after SetString(key, none) the key has no value in the
\* store; with or without a parent store, without a reload.
C2_ReadBackExactly ==
  /\ \A k \in DOMAIN cf_set : cf_set[k].kind = "none" => k \notin DOMAIN cf_cache
  /\ (cf_last.op = "GetString" /\ cf_last.key \in DOMAIN cf_set) =>
       LET w == cf_set[cf_last.key]
       IN /\ cf_last.seen.source = "memory"
          /\ (w.kind = "single" /\ ~cf_last.all) =>
               (~cf_last.result.isNone /\ cf_last.result.val = w.val)
          /\ (w.kind = "list" /\ cf_last.all) => cf_last.result.val = w.val

\* C2 amended: as stated, except that GetString(key, all values) after
\* SetString(key, [v1..vn]) returns [v1..vn] followed by the values the
\* parent store holds for the key (exactly [v1..vn] without a parent).
C2_ReadBack ==
  /\ \A k \in DOMAIN cf_set : cf_set[k].kind = "none" => k \notin DOMAIN cf_cache
  /\ (cf_last.op = "GetString" /\ cf_last.key \in DOMAIN cf_set) =>
       LET w == cf_set[cf_last.key]
       IN /\ cf_last.seen.source = "memory"
          /\ (w.kind = "single" /\ ~cf_last.all) =>
               (~cf_last.result.isNone /\ cf_last.result.val = w.val)
          /\ (w.kind = "list" /\ cf_last.all) =>
               cf_last.result.val = w.val \o ParentValues

\* A two-value list was stored in a store whose parent holds a value for
\* the key, and was read back with all values.
C2_Witness ==
  /\ cf_last.op = "GetString"
  /\ cf_last.all
  /\ cf_last.key \in DOMAIN cf_set
  /\ cf_set[cf_last.key].kind = "list"
  /\ ParentValues # <<>>
  /\ Len(cf_last.result.val) > Len(cf_set[cf_last.key].val)

\* The view GetString answers from when it reads the backing file.
FileAnswer == GetStringIn(cf_file, <<"k", "k">>, cf_last.all)

\* C3 as stated: when the side-file is not strictly newer than the backing
\* file, the next read of a key returns the backing file's content (taken
\* for a store that has set nothing itself and a listing command that works).
C3_StaleSideFileNeverServed ==
  (cf_last.op = "GetString" /\ cf_last.seen.jsonStale /\ cf_last.seen.gitOk
     /\ cf_set = EmptyMap)
    => cf_last.result = FileAnswer

\* C3 amended: when the side-file is not strictly newer than the backing
\* file, the next read that loads the store's view (the first access of a
\* store instance) returns what the config-listing command reports for the
\* backing file, and a load takes the side-file's content only when the
\* side-file is strictly newer; an instance that has loaded its view keeps
\* answering from memory.
C3_StaleSideFileNotLoaded ==
  /\ (cf_last.op = "GetString" /\ cf_last.seen.jsonStale /\ cf_last.seen.gitOk
        /\ cf_last.seen.source # "memory")
       => (cf_last.seen.source = "git" /\ cf_last.result = FileAnswer)
  /\ cf_last.seen.source = "json" => ~cf_last.seen.jsonStale

\* A read found a side-file as old as an edited backing file, whose content
\* differs from the side-file's, and loaded the view from the backing file.
C3_Witness ==
  /\ cf_last.op = "GetString"
  /\ cf_last.seen.jsonStale
  /\ cf_last.seen.source = "git"
  /\ cf_last.seen.gitOk
  /\ cf_last.seen.differs
  /\ cf_last.result = FileAnswer
  /\ ~cf_last.result.isNone

\* C4 as stated: after deleted(name) on a cache in any state (unloaded or
\* loaded), get(name) returns the empty string as long as no tracked file
\* changes.
C4_DeletedHidesNameInAnyState ==
  (gr_last.op = "get" /\ gr_last.name \in gr_deleted) => gr_last.result = ""

\* C4 amended: after deleted(name) on a loaded cache whose tracked files
\* all have the modification times it recorded, every get(name) returns the
\* empty string without a reload as long as no tracked file changes, and
\* deleted(name) performs no reload in any state.
C4_DeletedHidesName ==
  /\ (gr_last.op = "get" /\ gr_last.name \in gr_purged)
       => (gr_last.result = "" /\ ~gr_last.reloaded)
  /\ gr_last.op = "deleted" => ~gr_last.reloaded

\* get(name) has answered for a name that was purged from a loaded cache
\* while the name's file still holds a commit id.
C4_Witness ==
  /\ gr_last.op = "get"
  /\ gr_last.name \in gr_purged
  /\ gr_last.name \in LooseNames
  /\ gr_disk[gr_last.name].kind = "phy"
  /\ gr_last.result = ""

\* C5 as stated: for every RefSpec and every ref, SourceMatches(r) implies
\* DestMatches(MapSource(r)).
C5_RoundTripAnyRefSpec ==
  (rs_pc = "queried" /\ rs_out.sourceMatches) => rs_out.destMatches

\* A RefSpec whose destination is not empty and is a trailing wildcard
\* whenever its source is one.
WellFormedRefSpec ==
  /\ rs_dst # <<>>
  /\ EndsWithWild(rs_src) => EndsWithWild(rs_dst)

\* C5 amended: for every RefSpec with a non-empty destination that is a
\* trailing wildcard whenever the source is one, and every ref r,
\* SourceMatches(r) implies DestMatches(MapSource(r)).
C5_RoundTrip ==
  (rs_pc = "queried" /\ WellFormedRefSpec /\ rs_out.sourceMatches)
    => rs_out.destMatches

\* A wildcard RefSpec has mapped a ref other than its own source pattern.
C5_Witness ==
  /\ rs_pc = "queried"
  /\ WellFormedRefSpec
  /\ EndsWithWild(rs_src)
  /\ rs_out.sourceMatches
  /\ rs_rev # rs_src
  /\ Len(rs_out.mapped) = 3
  /\ rs_out.destMatches

\* What a resolution of doc by an unloaded engine gives: whether it
\* succeeds and, if so, the graph.
ResolveDocs(doc) ==
  LET parsed == ParseManifest(UnloadedEngine, doc)
      e == IF mf_mirror = <<>> THEN parsed
           ELSE AddMetaProjectMirror(AddMetaProjectMirror(parsed, mf_mirror[1]),
                                     mf_mirror[2])
  IN [ok |-> e.err = "", graph |-> IF e.err = "" THEN Graph(e) ELSE Graph(UnloadedEngine)]

\* What the engine holds after its last resolution.
Resolved ==
  [ok |-> mf_loaded, graph |-> IF mf_loaded THEN Graph(Engine) ELSE Graph(UnloadedEngine)]

\* The last call was a resolution of the documents by an unloaded engine.
ResolvedFromUnloaded ==
  mf_last.op = "load" /\ mf_last.clean /\ mf_last.at # "include"

\* C6: resolving the same documents again, after an unload or by an
\* independent (unloaded) engine, succeeds again and yields a graph equal
\* project by project in name, path, remote, revision and groups.
C6_ResolveTwice ==
  (mf_last.op = "load" /\ mf_prev.set /\ ~mf_includeMissing)
    => (mf_last.outcome = "ok" /\ Graph(Engine) = mf_prev.graph)

\* A graph of two projects or more was unloaded and resolved again.
C6_Witness ==
  /\ mf_last.op = "load"
  /\ mf_prev.set
  /\ mf_loaded
  /\ Cardinality(mf_prev.graph.projects) >= 2
  /\ Graph(Engine) = mf_prev.graph

\* C7 as stated: a resolution that fails with a parse error at a node of
\* any kind, include among them, leaves the engine in the unloaded state.
C7_ParseErrorUnloads ==
  (mf_last.op = "load" /\ mf_last.outcome = "ManifestParseError"
     /\ mf_last.at # "mirror")
    => IsUnloaded

\* The document with its i-th and (i+1)-th node exchanged.
Swap(doc, i) ==
  [k \in DOMAIN doc |-> IF k = i THEN doc[i + 1] ELSE IF k = i + 1 THEN doc[i] ELSE doc[k]]

\* The names of the projects a project element declares.
DeclaredNames(n) == {n.name} \cup (IF n.child # <<>> THEN {n.name \o n.child} ELSE {})

\* C8 as stated: exchanging two neighbouring nodes among project,
\* extend-project, repo-hooks and remove-project does not change the result.
C8_AnyOrder ==
  ResolvedFromUnloaded =>
    \A i \in 1..(Len(mf_doc) - 1) :
      (mf_doc[i].kind \in ProjectKinds /\ mf_doc[i + 1].kind \in ProjectKinds)
        => ResolveDocs(Swap(mf_doc, i)) = Resolved

\* C8 amended: the result does not depend on where the remote, default,
\* notice and manifest-server nodes stand (exchanging one of them with a
\* neighbour changes nothing); project, extend-project, repo-hooks and
\* remove-project nodes are applied in document order, so a resolution only
\* succeeds if every extend-project, repo-hooks and remove-project node
\* stands after a project node that declares the name it refers to.
C8_PassOrder ==
  ResolvedFromUnloaded =>
    /\ \A i \in 1..(Len(mf_doc) - 1) :
         ~(mf_doc[i].kind \in ProjectKinds /\ mf_doc[i + 1].kind \in ProjectKinds)
           => ResolveDocs(Swap(mf_doc, i)) = Resolved
    /\ mf_loaded =>
         \A i \in DOMAIN mf_doc :
           mf_doc[i].kind \in ProjectKinds \ {"project"} =>
             \E j \in 1..(i - 1) :
               mf_doc[j].kind = "project" /\ mf_doc[i].name \in DeclaredNames(mf_doc[j])

\* An extend-project standing before the project it names made the
\* resolution fail, and the same nodes with the two exchanged resolve.
C8_Witness ==
  /\ ResolvedFromUnloaded
  /\ mf_last.at = "extend-project"
  /\ \E i \in 1..(Len(mf_doc) - 1) :
       /\ mf_doc[i].kind = "extend-project"
       /\ mf_doc[i + 1].kind = "project"
       /\ ResolveDocs(Swap(mf_doc, i)).ok

\* The projects a project element declares, each with name and path.
Declared(n) ==
  LET top == IF n.path # <<>> THEN n.path ELSE n.name
      sub == IF n.childPath # <<>> THEN n.childPath ELSE n.name \o n.child
  IN {[name |-> n.name, relpath |-> top]}
       \cup (IF n.child # <<>> THEN {[name |-> n.name \o n.child, relpath |-> top \o sub]}
             ELSE {})

ProjectsOfGraph == {mf_paths[k] : k \in DOMAIN mf_paths}

\* C9 as stated: after a successful resolution no two projects of the
\* graph share a path and no two share a name.
C9_UniquePathsAndNames ==
  mf_loaded =>
    \A p1, p2 \in ProjectsOfGraph :
      (p1.relpath = p2.relpath \/ p1.name = p2.name) => p1 = p2

\* C9 amended: after a successful resolution no two projects of the graph
\* share a path, and the documents do not declare a path twice unless a
\* remove-project node between the two declarations names the first; names
\* are free to repeat.
C9_UniquePaths ==
  mf_loaded =>
    /\ \A p1, p2 \in ProjectsOfGraph : p1.relpath = p2.relpath => p1 = p2
    /\ \A k \in DOMAIN mf_paths : mf_paths[k].relpath = k
    /\ \A i, j \in DOMAIN mf_doc :
         (i <= j /\ mf_doc[i].kind = "project" /\ mf_doc[j].kind = "project") =>
           \A d1 \in Declared(mf_doc[i]), d2 \in Declared(mf_doc[j]) :
             (d1.relpath = d2.relpath /\ (i # j \/ d1 # d2)) =>
               \E k \in (i + 1)..(j - 1) :
                 mf_doc[k].kind = "remove-project" /\ mf_doc[k].name = d1.name

\* A resolution succeeded with two projects of one name in the graph.
C9_Witness ==
  /\ mf_loaded
  /\ \E p1, p2 \in ProjectsOfGraph : p1.name = p2.name /\ p1.relpath # p2.relpath

\* Two remote elements of one name differ in some attribute.
RemotesDiffer ==
  \E i, j \in DOMAIN mf_doc :
    /\ mf_doc[i].kind = "remote"
    /\ mf_doc[j].kind = "remote"
    /\ mf_doc[i].name = mf_doc[j].name
    /\ mf_doc[i] # mf_doc[j]

\* C10: remote elements of one name that differ in an attribute (fetch,
\* push url, alias, review, revision) make the resolution fail with a parse
\* error in the remote pass; when they are all identical the remote pass
\* does not fail and the engine holds the one remote of that name.
C10_SameNameRemotes ==
  ResolvedFromUnloaded =>
    /\ RemotesDiffer => (mf_last.outcome = "ManifestParseError" /\ mf_last.at = "remote")
    /\ ~RemotesDiffer =>
         /\ mf_last.at # "remote"
         /\ mf_loaded =>
              \A i \in DOMAIN mf_doc :
                mf_doc[i].kind = "remote" =>
                  /\ mf_doc[i].name \in DOMAIN mf_remotes
                  /\ mf_remotes[mf_doc[i].name] = ParseRemote(mf_doc[i])

\* The same remote element twice resolved to a single remote.
C10_Witness ==
  /\ ResolvedFromUnloaded
  /\ mf_loaded
  /\ Len(mf_doc) >= 2
  /\ mf_doc[1].kind = "remote"
  /\ mf_doc[1] = mf_doc[2]
  /\ Cardinality(DOMAIN mf_remotes) = 1

\* The project nodes of the document that declare the project p.
DeclaringNodes(p) ==
  {i \in DOMAIN mf_doc :
     mf_doc[i].kind = "project"
       /\ [name |-> p.name, relpath |-> p.relpath] \in Declared(mf_doc[i])}

\* The three implicit tags of the project p.
ImplicitTags(p) == {<<"all">>, <<"name">> \o p.name, <<"path">> \o p.relpath}

\* The spec scenario: remote o, default o/main, project libs/foo at foo.
ScenarioDoc ==
  <<RemoteO, [Element("default") EXCEPT !.remote = <<"o">>, !.revision = "main"], LibsFoo>>

ScenarioProject ==
  [name |-> <<"libs", "foo">>, relpath |-> <<"foo">>, remote |-> <<"o">>,
   revisionExpr |-> "main",
   groups |-> {<<"all">>, <<"name", "libs", "foo">>, <<"path", "foo">>},
   parent |-> <<>>]

\* The projects resolved from project nodes: the workspace is no mirror, and
\* the documents were resolved by an unloaded engine.
ResolvedNodes == ResolvedFromUnloaded /\ mf_loaded /\ mf_mirror = <<>>

\* C11 as stated: every project resolved from a node has the three implicit
\* tags and the groups of its node, and a project whose node has neither
\* remote nor revision has the remote and the revision of the default.
C11_TagsAndBothFromDefault ==
  ResolvedNodes =>
    \A p \in ProjectsOfGraph :
      /\ ImplicitTags(p) \subseteq p.groups
      /\ \E i \in DeclaringNodes(p) :
           /\ mf_doc[i].groups \subseteq p.groups
           /\ (mf_doc[i].remote = <<>> /\ mf_doc[i].revision = "") =>
                (p.remote = mf_default.remote.name
                   /\ p.revisionExpr = mf_default.revisionExpr)

\* C11 amended: every project resolved from a node has the three implicit
\* tags and the groups of its node; a project whose node has no remote has
\* the default's remote, and one whose node has no revision has the fixed
\* revision of its remote when the remote has one and the default's revision
\* otherwise; the spec scenario gives exactly the one project libs/foo.
C11_TagsAndDefaults ==
  ResolvedNodes =>
    /\ \A p \in ProjectsOfGraph :
         /\ ImplicitTags(p) \subseteq p.groups
         /\ \E i \in DeclaringNodes(p) :
              /\ mf_doc[i].groups \subseteq p.groups
              /\ mf_doc[i].remote = <<>> => p.remote = mf_default.remote.name
              /\ mf_doc[i].revision = "" =>
                   p.revisionExpr = IF mf_remotes[p.remote].revision # ""
                                      THEN mf_remotes[p.remote].revision
                                      ELSE mf_default.revisionExpr
    /\ mf_doc = ScenarioDoc => ProjectsOfGraph = {ScenarioProject}

\* The spec scenario was resolved and gave the one project.
C11_Witness ==
  /\ ResolvedNodes
  /\ mf_doc = ScenarioDoc
  /\ ProjectsOfGraph = {ScenarioProject}

\* The document without its i-th node.
Without(doc, i) == SubSeq(doc, 1, i - 1) \o SubSeq(doc, i + 1, Len(doc))

\* A project but for its groups.
Strip(p) == [p EXCEPT !.groups = {}]

\* The extend-project node n names the project p, by name and, when it has
\* a path, by path.
Names(n, p) == p.name = n.name /\ (n.path = <<>> \/ p.relpath = n.path)

\* The graph is the graph g but for the groups, and the groups of each
\* project are those it has in g plus, where added(p), the groups of n.
SameButGroups(g, n, added(_)) ==
  /\ {Strip(p) : p \in ProjectsOfGraph} = {Strip(q) : q \in g.projects}
  /\ mf_repo_hooks_project = g.hooks
  /\ \A p \in ProjectsOfGraph :
       \E q \in g.projects :
         /\ q.relpath = p.relpath
         /\ p.groups = q.groups \cup (IF added(p) THEN n.groups ELSE {})

\* C12 as stated: an extend-project node adds its groups to every project
\* of its name (and of its path when it has one) and the graph is otherwise
\* the graph of the document without the node.
C12_ExtendsEveryProjectOfName ==
  (ResolvedFromUnloaded /\ mf_loaded) =>
    \A i \in DOMAIN mf_doc :
      mf_doc[i].kind = "extend-project" =>
        LET without == ResolveDocs(Without(mf_doc, i))
            added(p) == Names(mf_doc[i], p)
        IN without.ok /\ SameButGroups(without.graph, mf_doc[i], added)

\* C12 amended: an extend-project node adds its groups to every project of
\* its name (and of its path when it has one) that a project node standing
\* before it declares, and to no other; the graph is otherwise the graph of
\* the document without the node.
C12_ExtendsProjectsDeclaredBefore ==
  (ResolvedFromUnloaded /\ mf_loaded) =>
    \A i \in DOMAIN mf_doc :
      mf_doc[i].kind = "extend-project" =>
        LET without == ResolveDocs(Without(mf_doc, i))
            added(p) == Names(mf_doc[i], p) /\ \E j \in DeclaringNodes(p) : j < i
        IN without.ok /\ SameButGroups(without.graph, mf_doc[i], added)

\* Two projects named libs/foo were declared and an extend-project node
\* with a path after them extended the one at that path only.
C12_Witness ==
  /\ ResolvedFromUnloaded
  /\ mf_loaded
  /\ \E i \in DOMAIN mf_doc :
       /\ mf_doc[i].kind = "extend-project"
       /\ mf_doc[i].path # <<>>
       /\ \E p, q \in ProjectsOfGraph :
            /\ p.name = mf_doc[i].name /\ q.name = mf_doc[i].name
            /\ p.relpath = mf_doc[i].path /\ q.relpath # mf_doc[i].path
            /\ mf_doc[i].groups \subseteq p.groups
            /\ mf_doc[i].groups \cap q.groups = {}

\* C13 as stated: once close_ssh has completed, every process that was
\* recorded in _master_processes has been killed and waited for, the key set
\* is empty and the process list is empty.
C13_TeardownKillsEverySession ==
  ss_main = "closed" =>
    /\ ss_signalled = ss_recorded
    /\ ss_keys = {}
    /\ ss_procs = <<>>

\* The ways _open_ssh returns False after a transport failure.
TransportFailures == {"spawnfail", "died"}

\* C14 as stated: a call whose probe raised, whose session could not be
\* started or whose session died returns failure.
C14_ProbeErrorReturnsFailure ==
  \A w \in Workers :
    (ss_pc[w] = "idle" /\ ss_lock # "None"
       /\ (ss_probe[w] = "raises" \/ ss_exit[w] \in TransportFailures))
      => ss_exit[w] \in TransportFailures

\* _open_ssh raises only when close_ssh has taken the lock away, and a call
\* whose probe raised ends as one whose probe found no session: it goes on
\* to start a session.
C14_Returns ==
  \A w \in Workers :
    /\ ss_exit[w] = "raised" => ss_lock = "None"
    /\ (ss_pc[w] = "idle" /\ ss_probe[w] \in {"raises", "none"})
         => ss_exit[w] \in TransportFailures \cup {"spawned", "raised"}
    /\ ss_probe[w] \in {"raises", "none"}
         => ss_pc[w] \in {"spawn", "sleep", "add", "idle"}

\* A call that returns after a transport failure has recorded no key and no
\* process, and its key is not known.
C14_FailureRecordsNothing ==
  \A w \in Workers :
    (ss_pc[w] # "idle" /\ ss_pc'[w] = "idle" /\ ss_exit'[w] \in TransportFailures)
      => /\ ss_keys' = ss_keys
         /\ ss_procs' = ss_procs
         /\ SshKey(ss_arg[w]) \notin ss_keys'

\* C14 amended: _open_ssh does not raise because of a transport failure.  A
\* probe that raises is ignored and the session is started as if the probe
\* had found none, so the call may still succeed; when the session cannot be
\* started or has died at the liveness check the call returns failure and
\* has recorded neither the key nor a process.
C14_TransportFailuresNotFatal ==
  []C14_Returns /\ [][C14_FailureRecordsNothing]_vars

\* A call whose probe raised went on to start a session that died, and
\* returned failure with nothing recorded.
C14_Witness ==
  /\ ss_main = "run"
  /\ ss_pc["w1"] = "idle"
  /\ ss_probe["w1"] = "raises"
  /\ ss_exit["w1"] = "died"
  /\ ss_keys = {}
  /\ ss_procs = <<>>

\* C15 as stated: a registered client stays in the registry until its Wait
\* returns and is out of it afterwards, and when terminate_ssh_clients has
\* completed it has terminated every client that was registered.
C15_RegistryTracksClients ==
  /\ \A w \in Workers :
       /\ (cl_pc[w] = "registered" /\ w \notin cl_killed) => w \in Range(cl_list)
       /\ cl_pc[w] = "idle" => w \notin Range(cl_list)
  /\ cl_term = "done" => cl_lost = {}

\* Every byte of both streams has been read and both are at end-of-file.
AllRead == co_in = {} /\ \A s \in Streams : co_left[s] = <<>>

\* C16 as stated: whatever the chunks the reads give and the order the
\* streams are read in, Wait does not raise: it goes on reading each stream
\* to its end-of-file, every chunk read having been appended, and returns
\* the exit code when both streams have ended.
C16_WaitReturnsExitCode ==
  /\ co_rc # "raised"
  /\ co_rc = "rc" => AllRead

\* The git-dir of a call: its gitdir argument, else its project's.
GitdirOf(call) == IF call.gitdir # "" THEN call.gitdir ELSE call.projectGitdir

\* C17: whatever os.environ holds, the env of a spawned child has no
\* inherited GIT_DIR, GIT_OBJECT_DIRECTORY, GIT_ALTERNATE_OBJECT_DIRECTORIES,
\* GIT_INDEX_FILE or REPO_TRACE; it has GIT_DIR exactly when the call is bare
\* with a git-dir, and then with the bytes of that git-dir; every other
\* variable of the parent is inherited as it is.
C17_ChildEnvironment ==
  en_child.spawned =>
    LET env == en_child.env
    IN /\ \A k \in {"GIT_OBJECT_DIRECTORY", "GIT_ALTERNATE_OBJECT_DIRECTORIES",
                    "GIT_INDEX_FILE", "REPO_TRACE"} : k \notin DOMAIN env
       /\ "GIT_DIR" \in DOMAIN env <=> (en_call.bare /\ GitdirOf(en_call) # "")
       /\ "GIT_DIR" \in DOMAIN env => env["GIT_DIR"] = Encode(GitdirOf(en_call))
       /\ \A k \in DOMAIN en_environ \ Stripped : k \in DOMAIN env /\ env[k] = en_environ[k]

\* C17, the frame: no step changes os.environ.
C17_ParentUnchanged == en_environ' = en_environ

C17_SanitizedEnvironment == []C17_ChildEnvironment /\ [][C17_ParentUnchanged]_vars

\* A bare call with a git-dir was spawned by a parent that had GIT_DIR,
\* GIT_INDEX_FILE and REPO_TRACE set.
C17_Witness ==
  /\ en_child.spawned
  /\ en_call.bare
  /\ en_call.gitdir = "g"
  /\ {"GIT_DIR", "GIT_INDEX_FILE", "REPO_TRACE", "PATH"} \subseteq DOMAIN en_environ
  /\ en_child.env["GIT_DIR"] = Encode("g")

\* Forty characters, each a lower-case hexadecimal digit.
Is40Hex(rev) == Len(rev) = IdLen /\ \A i \in 1..IdLen : rev[i] \in HexDigits

\* A bare name qualified: refs/heads/<name>; a name under refs/ as it is.
Qualified(rev) == IF StartsWith(rev, Refs) THEN rev ELSE R_HEADS \o rev

\* Some RefSpec of the remote matches the qualified revision.
SomeMatch == \E i \in DOMAIN tl_fetch : SourceMatches(tl_fetch[i].src, Qualified(tl_rev))

\* The result is the MapSource of the first RefSpec, in list order, whose
\* source matches the qualified revision.
MapsByFirstMatch ==
  \E i \in DOMAIN tl_fetch :
    /\ SourceMatches(tl_fetch[i].src, Qualified(tl_rev))
    /\ \A j \in 1..(i - 1) : ~SourceMatches(tl_fetch[j].src, Qualified(tl_rev))
    /\ tl_out.kind = "value"
    /\ tl_out.value = MapSource(tl_fetch[i].src, tl_fetch[i].dst, Qualified(tl_rev))

ReturnsRevUnchanged == tl_out.kind = "value" /\ tl_out.value = tl_rev

IdAndNewline(rev) ==
  /\ Len(rev) = IdLen + 1
  /\ Is40Hex(SubSeq(rev, 1, IdLen))
  /\ rev[IdLen + 1] = "\n"

ScannedNoMatch ==
  /\ tl_name # "."
  /\ ~IsId(tl_rev)
  /\ ~SomeMatch

\* C19 as stated: when no RefSpec matches, ToLocal returns an input that is
\* not of the form refs/heads/* unchanged and fails with GitError otherwise.
C19_UnmatchedInputUnchanged ==
  (tl_out.op = "ToLocal" /\ ScannedNoMatch) =>
    IF ~StartsWith(tl_rev, R_HEADS) THEN ReturnsRevUnchanged
    ELSE tl_out.kind = "GitError"

\* What LocalMerge hands to ToLocal, if anything.
CallsToLocal == tl_out.op = "ToLocal" \/ (tl_out.op = "LocalMerge" /\ tl_hasRemote /\ tl_rev # <<>>)

\* C19 amended: when no RefSpec matches, ToLocal returns a rev under refs/
\* but not under refs/heads/ unchanged, and fails with GitError for a rev
\* under refs/heads/ and for a bare name (which it has qualified as
\* refs/heads/<name>); the failure carries no value and LocalMerge passes
\* it on; a branch without remote or merge has the LocalMerge None.
C19_UnmatchedQualifiedRev ==
  /\ (CallsToLocal /\ ScannedNoMatch) =>
       IF StartsWith(tl_rev, Refs) /\ ~StartsWith(tl_rev, R_HEADS) THEN ReturnsRevUnchanged
       ELSE tl_out.kind = "GitError" /\ tl_out.value = <<>>
  /\ (tl_out.op = "LocalMerge" /\ ~(tl_hasRemote /\ tl_rev # <<>>)) => tl_out.kind = "None"

\* A bare name that no RefSpec of a non-empty list matches made ToLocal fail.
C19_Witness ==
  /\ tl_out.op = "ToLocal"
  /\ tl_name = "o"
  /\ tl_rev = <<"m">>
  /\ tl_fetch # <<>>
  /\ ~SomeMatch
  /\ tl_out.kind = "GitError"

\* The last call was a read of a key the child's view has no value for,
\* on a store chained to a parent.
ReadOfKeyNotInChild ==
  /\ cf_last.op \in {"Has", "GetString"}
  /\ cf_hasParent
  /\ cf_last.key \notin DOMAIN cf_cache

\* C20, the reads: on a store chained to a parent, Has and GetString for a
\* key with no value in the child return what the parent returns.
C20_ReadsFallThrough ==
  ReadOfKeyNotInChild =>
    cf_last.result = IF cf_last.op = "Has" THEN Bool(ParentHas(cf_last.key))
                     ELSE ParentGetString(cf_last.key, cf_last.all)

\* C20, the writes: a step of the child, SetString among them, changes
\* neither the keys and values of the parent nor the chaining, and the git
\* commands of SetString change the child's backing file only, at the key
\* that is set.
C20_ParentUntouched ==
  /\ cf_parent' = cf_parent
  /\ cf_hasParent' = cf_hasParent
  /\ cf_last'.op = "SetString" =>
       \A k \in CfgKeys \ {cf_last'.key} : Values(cf_file', k) = Values(cf_file, k)

C20_ParentChain == []C20_ReadsFallThrough /\ [][C20_ParentUntouched]_vars

\* The child unset a key the parent holds, and the next read of the key
\* gave the parent's value.
C20_Witness ==
  /\ cf_last.op = "GetString"
  /\ ~cf_last.all
  /\ cf_hasParent
  /\ cf_last.key \in DOMAIN cf_parent
  /\ cf_last.key \notin DOMAIN cf_cache
  /\ cf_last.key \in DOMAIN cf_set
  /\ cf_set[cf_last.key].kind = "none"
  /\ cf_last.result = [isNone |-> FALSE, val |-> <<cf_parent[cf_last.key][1]>>]

\* The (replacement, insteadof) entries whose insteadof is a prefix of the url.
MatchingEntries ==
  {e \in {[new |-> n, old |-> o] : n \in DOMAIN ui_map, o \in UiPrefixes} :
     /\ \E i \in DOMAIN ui_map[e.new] : ui_map[e.new][i] = e.old
     /\ StartsWith(ui_url, e.old)}

\* C21 as stated: UrlInsteadOf(url) is url with the longest insteadof value
\* that is a prefix of it replaced by that entry's replacement, and url
\* itself when no value is a prefix, whatever the order of the subsections.
C21_LongestPrefixReplaced ==
  ui_out.op = "UrlInsteadOf" =>
    IF MatchingEntries = {} THEN ui_out.value = ui_url
    ELSE \E e \in MatchingEntries :
           /\ \A f \in MatchingEntries : Len(f.old) <= Len(e.old)
           /\ ui_out.value = e.new \o SliceFrom(ui_url, Len(e.old))

\* The path keys of a list of the diff.
KeysOf(l) == {l[i] : i \in DOMAIN l}

\* self and other of the last projectsDiff call.
PdSelf == IF pd_out.op = "A.projectsDiff(B)" THEN pd_a ELSE pd_b

PdOther == IF pd_out.op = "A.projectsDiff(B)" THEN pd_b ELSE pd_a

\* C22: projectsDiff puts every path key of the two project sets into at
\* most one class, once: only in self -> removed, only in other -> added,
\* in both with a failing commit resolution on either side -> unreachable,
\* in both with differing ids -> changed, in both with equal ids -> none;
\* so the added keys of A.projectsDiff(B) are the removed keys of
\* B.projectsDiff(A).
C22_DiffClasses ==
  pd_out.op # "none" =>
    LET d == pd_out.diff
        both == DOMAIN PdSelf \cap DOMAIN PdOther
        bad == {k \in both : PdSelf[k] = "invalid" \/ PdOther[k] = "invalid"}
    IN /\ KeysOf(d.removed) = DOMAIN PdSelf \ DOMAIN PdOther
       /\ KeysOf(d.added) = DOMAIN PdOther \ DOMAIN PdSelf
       /\ KeysOf(d.unreachable) = bad
       /\ KeysOf(d.changed) = {k \in both \ bad : PdSelf[k] # PdOther[k]}
       /\ Len(d.removed) + Len(d.added) + Len(d.unreachable) + Len(d.changed)
            = Cardinality(KeysOf(d.removed) \cup KeysOf(d.added)
                            \cup KeysOf(d.unreachable) \cup KeysOf(d.changed))
       /\ KeysOf(d.added) = KeysOf(ProjectsDiff(PdOther, PdSelf).removed)

\* A diff with a changed, an unreachable and an added key.
C22_Witness ==
  /\ pd_out.op = "A.projectsDiff(B)"
  /\ pd_out.diff.changed # <<>>
  /\ pd_out.diff.unreachable # <<>>
  /\ pd_out.diff.added # <<>>

\* C23 as stated: resolving the document Save wrote (no group filter, peg
\* off) succeeds and gives the graph that was saved, project by project in
\* name, path, remote, revision, groups and nesting, with the same remotes,
\* default and hooks project.
C23_SaveThenResolve ==
  sv_pc = "again" =>
    /\ sv_again.err = ""
    /\ Graph(sv_again) = Graph(sv_engine)
    /\ sv_again.remotes = sv_engine.remotes
    /\ sv_again.default = sv_engine.default

\* The document up to its i-th node, with the remote, default, notice and
\* manifest-server nodes that stand after it: what _ParseManifest has
\* applied when its last loop is done with the i-th node.
UpTo(doc, i) ==
  SubSeq(doc, 1, i)
    \o SelectSeq(SubSeq(doc, i + 1, Len(doc)), LAMBDA n : n.kind \notin ProjectKinds)

\* The names of the projects in the path index.
NamesInPaths(e) == {e.paths[k].name : k \in DOMAIN e.paths}

\* C24 as stated: a remove-project node naming an existing project deletes
\* every project of that name from both indexes, so that after resolution
\* no project of that name is in the graph.
C24_RemovedNameNotInGraph ==
  (ResolvedFromUnloaded /\ mf_loaded) =>
    \A i \in DOMAIN mf_doc :
      mf_doc[i].kind = "remove-project" =>
        /\ mf_doc[i].name \notin DOMAIN mf_projects
        /\ mf_doc[i].name \notin NamesInPaths(Engine)

\* C24 amended: when a remove-project node is applied and a project of its
\* name exists, every project of that name is deleted from the name index
\* and from the path index, and every other project stays in both; when no
\* project of that name exists then, the resolution fails with a parse
\* error. A project element that stands after the node may declare the name
\* again, so the name can be in the graph after resolution.
C24_RemoveDeletesWhenApplied ==
  ResolvedFromUnloaded =>
    \A i \in DOMAIN mf_doc :
      mf_doc[i].kind = "remove-project" =>
        LET name == mf_doc[i].name
            before == ParseManifest(UnloadedEngine, UpTo(mf_doc, i - 1))
            after == ParseManifest(UnloadedEngine, UpTo(mf_doc, i))
        IN before.err = "" =>
             IF name \in DOMAIN before.projects
               THEN /\ after.err = ""
                    /\ name \notin DOMAIN after.projects
                    /\ name \notin NamesInPaths(after)
                    /\ after.projects = [k \in DOMAIN before.projects \ {name}
                                           |-> before.projects[k]]
                    /\ after.paths = [k \in {k \in DOMAIN before.paths :
                                               before.paths[k].name # name}
                                        |-> before.paths[k]]
               ELSE /\ after.err = "remove-project"
                    /\ mf_last.outcome = "ManifestParseError"
                    /\ mf_last.at = "remove-project"
                    /\ ~mf_loaded

\* Two projects of one name were removed by one node.
C24_Witness ==
  /\ ResolvedFromUnloaded
  /\ mf_loaded
  /\ \E i \in DOMAIN mf_doc :
       /\ mf_doc[i].kind = "remove-project"
       /\ mf_doc[i].name \notin DOMAIN mf_projects
       /\ LET before == ParseManifest(UnloadedEngine, UpTo(mf_doc, i - 1))
          IN mf_doc[i].name \in DOMAIN before.projects
               /\ Len(before.projects[mf_doc[i].name]) = 2

\* The first of the three that is not empty, "" when all are.
FirstSet(a, b, c) == IF a # "" THEN a ELSE IF b # "" THEN b ELSE c

\* C25: for every project node, the remote is the node's remote attribute,
\* else the Default's remote, else the resolution fails with a parse error;
\* the revision is the node's revision attribute, else its remote's fixed
\* revision, else the Default's revision, else the resolution fails; a
\* remote attribute naming an undeclared remote fails.
C25_RemoteAndRevisionOrder ==
  ResolvedFromUnloaded =>
    \A i \in DOMAIN mf_doc :
      mf_doc[i].kind = "project" =>
        LET n == mf_doc[i]
            before == ParseManifest(UnloadedEngine, UpTo(mf_doc, i - 1))
            after == ParseManifest(UnloadedEngine, UpTo(mf_doc, i))
            remote == IF n.remote # <<>> THEN n.remote ELSE before.default.remote.name
            path == IF n.path # <<>> THEN n.path ELSE n.name
        IN before.err = "" =>
             IF (n.remote # <<>> /\ n.remote \notin DOMAIN before.remotes) \/ remote = <<>>
               THEN after.err = "project" /\ ~mf_loaded
               ELSE LET rev == FirstSet(n.revision, before.remotes[remote].revision,
                                        before.default.revisionExpr)
                    IN IF rev = "" THEN after.err = "project" /\ ~mf_loaded
                       ELSE IF path \in DOMAIN before.paths THEN after.err = "project"
                       ELSE /\ after.err = ""
                            /\ after.paths[path].name = n.name
                            /\ after.paths[path].remote = remote
                            /\ after.paths[path].revisionExpr = rev

\* A project without remote and revision took the Default's remote and that
\* remote's fixed revision, not the Default's revision.
C25_Witness ==
  /\ ResolvedFromUnloaded
  /\ mf_loaded
  /\ mf_default.revisionExpr = "main"
  /\ <<"a">> \in DOMAIN mf_paths
  /\ mf_paths[<<"a">>].remote = <<"o">>
  /\ mf_paths[<<"a">>].revisionExpr = "r2"
  /\ \E i \in DOMAIN mf_doc :
       mf_doc[i].kind = "project" /\ mf_doc[i].remote = <<>> /\ mf_doc[i].revision = ""

\* The worker w is inside the probe-or-start sequence of _open_ssh.
InAcquire(w) == ss_pc[w] \in {"check", "probe", "spawn", "sleep", "add"}

\* C26: every mutation of the known-live key set and of the recorded
\* session-process list, the adds in Acquire and the clearing in teardown,
\* is made by a thread that holds the multiplexer lock, Acquire holds the
\* lock for its whole probe-or-start sequence, and teardown never mutates
\* the two structures while a worker is inside that sequence.
C26_MutationsUnderLock ==
  /\ [](\A w \in Workers : InAcquire(w) => ss_lock = w)
  /\ [][(ss_keys' # ss_keys \/ ss_procs' # ss_procs) =>
          IF ss_main' # ss_main
            THEN ss_lock = "main" /\ \A w \in Workers : ~InAcquire(w)
            ELSE \E w \in Workers : ss_lock = w /\ ss_pc'[w] # ss_pc[w]]_vars

\* C27: the lock is initialized once before the command runs, teardown runs
\* once after it on every outcome of the command, and when the process
\* reports its result every recorded session process has been terminated.
C27_TeardownBeforeResult ==
  /\ [](mn_outcome # "none" => ss_main # "start")
  /\ [](mn_result # "none" => ss_main = "closed" /\ ss_signalled = ss_recorded)
  /\ [][/\ ss_lock = "None" /\ ss_lock' # "None" => ss_main = "start"
        /\ ss_main' = "killing" /\ ss_main # "killing" => mn_outcome # "none" /\ mn_result = "none"]_vars

\* This step is a get or a symref call. (A call that changes nothing at all
\* is a stuttering step.)
IsRefsCall ==
  /\ gr_last'.op \in {"get", "symref"}
  /\ gr_disk' = gr_disk /\ gr_packed' = gr_packed
  /\ gr_last' # gr_last \/ gr_loads' # gr_loads

\* What the files hold for a name now: the commit id of a physical ref
\* that is not symbolic, and the target of a symbolic ref.
OnDiskId(name) ==
  IF name \in DOMAIN gr_disk /\ gr_disk[name].kind = "phy" THEN gr_disk[name].val
  ELSE IF gr_packed.exists /\ name \in DOMAIN gr_packed.refs THEN gr_packed.refs[name]
  ELSE ""

OnDiskTarget(name) ==
  IF name \in DOMAIN gr_disk /\ gr_disk[name].kind = "sym" THEN gr_disk[name].val ELSE ""

\* C28: on a loaded cache, a get or symref call made while a tracked file's
\* modification time differs from the recorded one, or the file is gone,
\* reloads the three tables from the files before it answers, and answers
\* from the files as they are; a call made while no tracked time differs
\* reloads nothing and leaves the three tables as they were.
C28_ReloadWhenTrackedFileChanged ==
  [][(gr_loaded /\ IsRefsCall) =>
       IF \E f \in DOMAIN gr_mtime : gr_mtime[f] # DiskMtime(f)
         THEN /\ gr_loads' = gr_loads + 1
              /\ gr_last'.reloaded
              /\ gr_symref' = ReadFiles.sym
              /\ gr_mtime' = ReadFiles.mtime
              /\ \A n \in RefNames :
                   (n \notin DOMAIN gr_disk \/ gr_disk[n].kind # "sym") =>
                     Lookup(gr_phyref', n) = OnDiskId(n)
              /\ gr_last'.op = "symref" => gr_last'.result = OnDiskTarget(gr_last'.name)
              /\ (gr_last'.op = "get" /\ OnDiskTarget(gr_last'.name) = "") =>
                   gr_last'.result = OnDiskId(gr_last'.name)
         ELSE /\ gr_loads' = gr_loads
              /\ ~gr_last'.reloaded
              /\ UNCHANGED <<gr_phyref, gr_symref, gr_mtime>>]_vars

\* A get on a loaded cache has reloaded after a tracked file had been
\* removed, and answers that the ref is gone.
C28_Witness ==
  /\ gr_loads = 2
  /\ gr_last.op = "get"
  /\ gr_last.reloaded
  /\ gr_last.name \in LooseNames
  /\ gr_disk[gr_last.name].kind = "absent"
  /\ ~gr_packed.exists
  /\ gr_last.result = ""
  /\ gr_writes = 1

\* The levels of indirection from the name n to a ref with a commit id of
\* its own: 0 for such a ref, -1 when the chain is dangling or cyclic.
RECURSIVE Levels(_, _)
Levels(n, k) ==
  IF n \notin DOMAIN sr_sym
    THEN (IF n \in DOMAIN sr_phy THEN k ELSE -1)
    ELSE IF k >= Len(SymNames) THEN -1 ELSE Levels(sr_sym[n], k + 1)

\* The commit id at the end of the chain of n.
RECURSIVE ChainEnd(_)
ChainEnd(n) == IF n \in DOMAIN sr_sym THEN ChainEnd(sr_sym[n]) ELSE sr_phy[n]

\* No symbolic ref is listed in packed-refs as well.
NoPackedSymbolic == DOMAIN sr_sym \cap DOMAIN sr_phy = {}

ReadOfCorruptSideFile ==
  /\ ~cf_loaded
  /\ cf_json.state = "corrupt"
  /\ cf_last'.op \in {"GetString", "Has", "raised"}
  /\ cf_loaded' \/ cf_last' # cf_last

\* C30 as stated: a read that finds a corrupt side-file raises nothing, its
\* view is what the backing file holds, or empty when 'git config --list'
\* fails, and a fresh side-file holding that view is left.
C30_CorruptSideFileHealed ==
  [][ReadOfCorruptSideFile =>
       /\ cf_last'.op # "raised"
       /\ cf_loaded'
       /\ cf_cache' = (IF cf_last'.seen.gitOk THEN cf_file ELSE EmptyMap)
       /\ cf_json'.state = "ok"
       /\ cf_json'.content = cf_cache']_vars

\* C31 as stated: HasSection and GetSubSections answer from the keys the
\* store holds now, whatever was set or unset since the first section query.
C31_SectionsFollowKeys ==
  /\ sx_last.op = "HasSection" =>
       sx_last.has =
         (\E k \in DOMAIN sx_cache :
            SectionOf(k) = sx_last.name[1] /\ SubsectionOf(k) = sx_last.sub)
  /\ sx_last.op = "GetSubSections" =>
       sx_last.subs =
         {SubsectionOf(k) : k \in {x \in DOMAIN sx_cache : SectionOf(x) = sx_last.name[1]}}

\* The repo-hooks nodes of the document.
HooksNodesOf(doc) == {i \in DOMAIN doc : doc[i].kind = "repo-hooks"}

\* The hooks project of the engine e is unset, or is a project of the name
\* index with enabled hooks.
HooksProjectInGraph(e) ==
  e.hooks.set =>
    /\ e.hooks.name \in DOMAIN e.projects
    /\ \E i \in DOMAIN e.projects[e.hooks.name] :
         e.projects[e.hooks.name][i].relpath = e.hooks.relpath
    /\ e.hooks.enabled # <<>>

C33_IncludesEndInParseError ==
  ic_out # NotParsed => ic_out.kind \in {"nodes", "ManifestParseError"}

\* C34: with GIT_SSH in the environment, or on win32 or cygwin, no call of
\* _open_ssh reaches the probe or the spawn, none ends otherwise than by
\* skipping (or by the raise of a call made after close_ssh has dropped the
\* lock), and the known-live set and the list of session processes stay
\* empty.
C34_SkipsMultiplexing ==
  ss_env # "plain" =>
    /\ ss_keys = {} /\ ss_procs = <<>> /\ ss_recorded = 0
    /\ \A w \in Workers :
         /\ ss_pc[w] \in {"idle", "acquire", "check"}
         /\ ss_probe[w] = "unset"
         /\ ss_exit[w] \in {"none", "skipped", "raised"}
         /\ ss_exit[w] = "raised" => ss_main = "closed"

\* With GIT_SSH set both workers have called _open_ssh and both calls have
\* returned failure by skipping.
C34_Witness ==
  /\ ss_env = "GIT_SSH"
  /\ ss_main = "run"
  /\ \A w \in Workers : ss_pc[w] = "idle" /\ ss_exit[w] = "skipped"
  /\ ss_arg["w1"] # ss_arg["w2"]

\* C35 as stated: a worker that is not inside _open_ssh does not hold the
\* lock, and a worker that waits for the lock eventually gets it, the probe
\* and the spawn of the holder terminating.
C35_LockReleasedOnEveryPath ==
  /\ [](\A w \in Workers : ss_lock = w => InAcquire(w))
  /\ \A w \in Workers : (ss_pc[w] = "acquire") ~> (ss_pc[w] = "check")

\* Once _ssh_master is false no call is at the probe, the spawn, the
\* liveness check or the recording.
MasterOffNoSession ==
  ~ss_master => \A w \in Workers : ss_pc[w] \notin {"probe", "spawn", "sleep", "add"}

\* A failed spawn switches _ssh_master off and it is never switched on
\* again; with it off, the test after the key test returns failure for a
\* key that is not known (the call raises instead when close_ssh has dropped
\* the lock); a session that died leaves _ssh_master on and the key unknown,
\* and with it on the test lets a call for an unknown key go on to the probe.
MasterSteps ==
  /\ ~ss_master => ~ss_master'
  /\ \A w \in Workers :
       /\ (ss_pc[w] = "spawn" /\ ss_exit'[w] = "spawnfail") => ~ss_master'
       /\ (ss_pc[w] = "sleep" /\ ss_pc'[w] = "idle") =>
            /\ ss_exit'[w] \in {"died", "raised"}
            /\ ss_master' = ss_master
            /\ SshKey(ss_arg[w]) \notin ss_keys'
       /\ (ss_pc[w] = "check" /\ ss_pc'[w] # "check"
             /\ SshKey(ss_arg[w]) \notin ss_keys) =>
            IF ~ss_master
              THEN /\ ss_pc'[w] = "idle"
                   /\ ss_exit'[w] = IF ss_lock = "None" THEN "raised" ELSE "skipped"
                   /\ ss_keys' = ss_keys /\ ss_procs' = ss_procs
              ELSE ss_env = "plain" => ss_pc'[w] = "probe"

\* C36: after a spawn error multiplexing is off for the rest of the
\* process: every later call for a key that is not known returns failure
\* without probing or spawning; after a session that died it stays on and
\* a later call for the same key probes and spawns again.
C36_SpawnErrorDisablesMultiplexing ==
  []MasterOffNoSession /\ [][MasterSteps]_vars

\* The spawn of one worker failed, and the later call of the other worker
\* for another key returned failure without a probe.
C36_Witness ==
  /\ ss_main = "run"
  /\ ss_env = "plain"
  /\ ss_exit["w1"] = "spawnfail" /\ ss_pc["w1"] = "idle"
  /\ ss_exit["w2"] = "skipped" /\ ss_pc["w2"] = "idle"
  /\ ss_probe["w2"] = "unset"
  /\ ss_arg["w1"] # ss_arg["w2"]

\* C37 as stated: after a SetString call on a store whose view equals the
\* backing file, the values the view holds for the key are those the file
\* holds for it, whether or not the git config commands of the call exited
\* with 0.
C37_ViewEqualsFileAfterSetString ==
  [][(sx_last'.op = "SetString" /\ sx_writes' = sx_writes + 1 /\ sx_cache = sx_file)
       => Values(sx_cache', Key(sx_last'.name)) = Values(sx_file', Key(sx_last'.name))]_vars

\* C38 as stated: after Branch.Save of a branch with a remote and a merge
\* target, GetString of branch.<name>.remote and of branch.<name>.merge on
\* the same store give the saved values and HasSection('branch', <name>)
\* is true, whether or not the section was there before.
C38_SaveWritesThroughStore ==
  sx_last.op = "Save" =>
    /\ ~GetStringIn(sx_cache, RemoteKey, FALSE).isNone
    /\ Values(sx_cache, RemoteKey) = <<sx_last.name[1]>>
    /\ ~GetStringIn(sx_cache, MergeKey, FALSE).isNone
    /\ Values(sx_cache, MergeKey) = <<sx_last.name[2]>>
    /\ HasSectionIn(SectionsNow, "branch", <<BranchName>>)

\* The projects the name index holds.
ProjectsOfNames ==
  UNION {{mf_projects[n][i] : i \in DOMAIN mf_projects[n]} : n \in DOMAIN mf_projects}

\* C39 as stated: after a successful resolution the name index and the path
\* index hold the same projects, and the parent of every nested project of
\* the graph is in the graph.
C39_IndexesAgreeParentsPresent ==
  (ResolvedFromUnloaded /\ mf_loaded) =>
    /\ ProjectsOfNames = ProjectsOfGraph
    /\ \A p \in ProjectsOfGraph : p.parent # <<>> => p.parent \in DOMAIN mf_projects

\* What a step of Override or of a query is to leave: manifestFile as it
\* was; after an Override that succeeded the graph of the override
\* document, loaded; after one that ended with a parse error an unloaded
\* engine; after one whose file is missing the engine as it was; and a
\* query of a loaded engine changes nothing.
OverrideStep ==
  /\ ov_manifestFile' = ov_manifestFile
  /\ (ov_last'.op = "Override" /\ ov_last'.outcome = "ok") =>
       /\ ov_loaded'
       /\ Graph(ov_engine') =
            Graph(LoadOf(UnloadedEngine, ov_docs[OtherXml], FALSE, ov_mirror).engine)
  /\ (ov_last'.op = "Override" /\ ov_last'.outcome = "ManifestParseError") =>
       ~ov_loaded' /\ ov_engine' = UnloadedEngine
  /\ (ov_last'.op = "Override" /\ ov_last'.outcome = "notFound") =>
       ov_loaded' = ov_loaded /\ ov_engine' = ov_engine
  /\ (ov_last'.op = "query" /\ ov_loaded) => ov_engine' = ov_engine /\ ov_loaded'

\* C40 as stated: Override leaves manifestFile as it was on every outcome;
\* on success the graph is that of the override document and later queries
\* keep it; on a parse error the engine is left unloaded.
C40_OverrideKeepsFile ==
  [][OverrideStep]_vars

=============================================================================
